---- MODULE Spec2Model ----
(***************************************************************************)
(* Model of the normalized-entity-graph resolver and profile materializer  *)
(* of src/scraping/main.py (parse_linkedin_voyager_response and helpers),  *)
(* of its identifier canonicalizer url_to_public_id, and of the second     *)
(* parser, parse_profile_response of src/scraping/scrapers/linkedin.py.    *)
(*                                                                         *)
(* Python values are tagged records: None, Str(s), Num(n), Lst(seq) and    *)
(* Dict(f), where f is a TLA+ function whose DOMAIN is the set of keys the *)
(* dict holds.  An exception leaving a function is the value Raise(name).  *)
(***************************************************************************)
EXTENDS Integers, Sequences, FiniteSets, TLC

VARIABLES
    json_response,      \* the payload handed to the parser (a Dict)
    public_identifier,  \* the target short identifier, or None
    pc,                 \* position of the call in progress
    urn_map,            \* ReferenceGraph: identifier -> entity
    profile_entity,     \* the root entity chosen by the selector, or None
    result,             \* what the call returned or raised, None before
    arg_entity,         \* _resolve_star_field: the entity argument
    arg_field,          \* _resolve_star_field: the field_name argument
    url,                \* url_to_public_id: the url argument
    calls,              \* the completed calls: payload, target and outcome of each
    queries,            \* search: the queries of the targets still to be run
    save_to_db,         \* search: the save_to_db argument
    s_pc,               \* position of the search call
    all_results,        \* search: the results of the queries run so far
    unique_results,     \* search: the deduplicated list it returns
    table,              \* the rows of the profiles table, in the order of their ids
    total_changes,      \* connection.total_changes of the open connection
    count,              \* what the last save_results call returned or printed, None before
    db_results,         \* the results argument of the last save_results call
    rows_before,        \* the number of rows when the last save_results call began
    batch,              \* what fetching and materializing each item of the batch does
    outcomes,           \* per item: what the caller made of it, None before
    b_next,             \* run: the place of the next item the user enters
    b_pc,               \* position of the batch
    _scraper_session,   \* the global scraper session, None until one is set
    requests,           \* per answered request: the session it met, what get_profile did, the response
    _crawler,           \* self._crawler: the crawler instance, None when there is none
    instances,          \* the number of AsyncWebCrawler instances created so far
    since_close,        \* the number of instances created since the last close() call
    started,            \* the instances whose start() has completed
    aruns,              \* the page fetches issued: the instance, and whether it was started
    t_pc,               \* per call: its position
    t_made              \* per call: the instance it created and is starting, 0 for none

----------------------------------------------------------------------------
(* Python values *)

None == [k |-> "none"]
Str(s) == [k |-> "str", v |-> s]
Num(n) == [k |-> "int", v |-> n]
Lst(q) == [k |-> "list", v |-> q]
Dict(f) == [k |-> "dict", v |-> f]
Raise(e) == [k |-> "raise", v |-> e]

EmptyMap == [x \in {} |-> None]
EmptyDict == Dict(EmptyMap)

IsRaise(x) == x.k = "raise"
IsStr(x) == x.k = "str"
IsList(x) == x.k = "list"
IsDict(x) == x.k = "dict"

\* bool(x): None, "", 0, [] and {} are falsy
Truthy(x) ==
    CASE x.k = "none" -> FALSE
      [] x.k = "str"  -> x.v # ""
      [] x.k = "int"  -> x.v # 0
      [] x.k = "list" -> Len(x.v) > 0
      [] x.k = "dict" -> DOMAIN x.v # {}
      [] OTHER        -> TRUE

\* hash(x) raises TypeError for a list or a dict
Hashable(x) == x.k \in {"none", "str", "int"}

\* d.get(key, default) on a Dict d
GetOr(d, key, default) == IF key \in DOMAIN d.v THEN d.v[key] ELSE default

\* d.get(key)
Get(d, key) == GetOr(d, key, None)

\* m.get(key) on the ReferenceGraph m, whose keys are strings
MapGet(m, key) ==
    IF ~Hashable(key) THEN Raise("TypeError")
    ELSE IF IsStr(key) /\ key.v \in DOMAIN m THEN m[key.v]
    ELSE None

----------------------------------------------------------------------------
(* The groups of variables *)

vars ==
    <<json_response, public_identifier, pc, urn_map, profile_entity, result,
      arg_entity, arg_field, url, calls, queries, save_to_db, s_pc,
      all_results, unique_results, table, total_changes, count, db_results,
      rows_before, batch, outcomes, b_next, b_pc, _scraper_session, requests,
      _crawler, instances, since_close, started, aruns, t_pc, t_made>>

\* the parsers and the canonicalizer: arguments, locals and outcome of a call
parserVars ==
    <<json_response, public_identifier, pc, urn_map, profile_entity, result,
      arg_entity, arg_field, url>>
ParserIdle ==
    /\ json_response = EmptyDict
    /\ public_identifier = None
    /\ pc = "idle"
    /\ urn_map = EmptyMap
    /\ profile_entity = None
    /\ result = None
    /\ arg_entity = None
    /\ arg_field = ""
    /\ url = ""

\* what a caller has seen of the calls it made so far
callVars == <<calls>>
CallsIdle ==
    /\ calls = <<>>

\* one ProfileSearcher.search call: its argument and locals
searchVars == <<queries, save_to_db, s_pc, all_results, unique_results>>
SearchIdle ==
    /\ queries = 0
    /\ save_to_db = FALSE
    /\ s_pc = "s_idle"
    /\ all_results = <<>>
    /\ unique_results = <<>>

\* the profiles table and the connection of a ProfileDatabase
dbVars == <<table, total_changes, count, db_results, rows_before>>
DbIdle ==
    /\ table = <<>>
    /\ total_changes = 0
    /\ count = None
    /\ db_results = <<>>
    /\ rows_before = 0

\* a caller that works through several items: run() and extract_batch
batchVars == <<batch, outcomes, b_next, b_pc>>
BatchIdle ==
    /\ batch = <<>>
    /\ outcomes = <<>>
    /\ b_next = 1
    /\ b_pc = "b_idle"

\* api/routes.py: the module's session and the requests answered so far
routeVars == <<_scraper_session, requests>>
RouteIdle ==
    /\ _scraper_session = None
    /\ requests = <<>>

\* crawler/service.py: one CrawlerService and the calls running on it
crawlVars ==
    <<_crawler, instances, since_close, started, aruns, t_pc, t_made>>
CrawlIdle ==
    /\ _crawler = None
    /\ instances = 0
    /\ since_close = 0
    /\ started = {}
    /\ aruns = {}
    /\ t_pc = <<>>
    /\ t_made = <<>>

\* what is outside parserVars, and its state when nothing of it runs
others == <<callVars, searchVars, dbVars, batchVars, routeVars, crawlVars>>
OthersIdle == CallsIdle /\ SearchIdle /\ DbIdle /\ BatchIdle /\ RouteIdle /\ CrawlIdle

\* what is outside callVars, and its state when nothing of it runs
outsideCalls ==
    <<parserVars, searchVars, dbVars, batchVars, routeVars, crawlVars>>
OutsideCallsIdle == ParserIdle /\ SearchIdle /\ DbIdle /\ BatchIdle /\ RouteIdle /\ CrawlIdle

\* what is outside searchVars, and its state when nothing of it runs
outsideSearch ==
    <<parserVars, callVars, dbVars, batchVars, routeVars, crawlVars>>
OutsideSearchIdle == ParserIdle /\ CallsIdle /\ DbIdle /\ BatchIdle /\ RouteIdle /\ CrawlIdle

\* what is outside dbVars, and its state when nothing of it runs
outsideDb ==
    <<parserVars, callVars, searchVars, batchVars, routeVars, crawlVars>>
OutsideDbIdle == ParserIdle /\ CallsIdle /\ SearchIdle /\ BatchIdle /\ RouteIdle /\ CrawlIdle

\* what is outside batchVars, and its state when nothing of it runs
outsideBatch ==
    <<parserVars, callVars, searchVars, dbVars, routeVars, crawlVars>>
OutsideBatchIdle == ParserIdle /\ CallsIdle /\ SearchIdle /\ DbIdle /\ RouteIdle /\ CrawlIdle

\* what is outside routeVars, and its state when nothing of it runs
outsideRoute ==
    <<parserVars, callVars, searchVars, dbVars, batchVars, crawlVars>>
OutsideRouteIdle == ParserIdle /\ CallsIdle /\ SearchIdle /\ DbIdle /\ BatchIdle /\ CrawlIdle

\* what is outside crawlVars, and its state when nothing of it runs
outsideCrawl ==
    <<parserVars, callVars, searchVars, dbVars, batchVars, routeVars>>
OutsideCrawlIdle == ParserIdle /\ CallsIdle /\ SearchIdle /\ DbIdle /\ BatchIdle /\ RouteIdle

\* what is outside parserVars and callVars, and its state when nothing of it runs
outsideRepeat == <<searchVars, dbVars, batchVars, routeVars, crawlVars>>
OutsideRepeatIdle == SearchIdle /\ DbIdle /\ BatchIdle /\ RouteIdle /\ CrawlIdle

\* what is outside searchVars and dbVars, and its state when nothing of it runs
outsideSearchDb == <<parserVars, callVars, batchVars, routeVars, crawlVars>>
OutsideSearchDbIdle == ParserIdle /\ CallsIdle /\ BatchIdle /\ RouteIdle /\ CrawlIdle

----------------------------------------------------------------------------
(* _resolve_references *)

\* json_response.get("included", []) as a TLA+ sequence of entities
Included(data) == GetOr(data, "included", Lst(<<>>)).v

\* variant: the first entity carrying an identifier wins
RECURSIVE UrnMapUpTo_FirstWins(_, _)
UrnMapUpTo_FirstWins(inc, n) ==
    IF n = 0 THEN EmptyMap
    ELSE LET m == UrnMapUpTo_FirstWins(inc, n - 1)
             urn == Get(inc[n], "entityUrn")
         IN  IF Truthy(urn) THEN m @@ (urn.v :> inc[n]) ELSE m

RECURSIVE UrnMapUpTo(_, _)
UrnMapUpTo(inc, n) ==
    IF n = 0 THEN EmptyMap
    ELSE LET m == UrnMapUpTo(inc, n - 1)
             urn == Get(inc[n], "entityUrn")
         IN  IF Truthy(urn) THEN (urn.v :> inc[n]) @@ m ELSE m

_resolve_references(data) == UrnMapUpTo(Included(data), Len(Included(data)))

----------------------------------------------------------------------------
(* _resolve_star_field *)

\* [urn_map.get(urn) for urn in value if urn_map.get(urn)], left to right
\* variant: one unmapped identifier fails the whole list
RECURSIVE LookupAll_AllOrNothing(_, _)
LookupAll_AllOrNothing(m, q) ==
    IF q = <<>> THEN Lst(<<>>)
    ELSE LET hit == MapGet(m, Head(q))
         IN  IF IsRaise(hit) THEN hit
             ELSE LET rest == LookupAll_AllOrNothing(m, Tail(q))
                  IN  IF IsRaise(rest) THEN rest
                      ELSE IF Truthy(hit) /\ (Tail(q) = <<>> \/ Len(rest.v) = Len(Tail(q)))
                           THEN Lst(<<hit>> \o rest.v)
                      ELSE Lst(<<>>)

RECURSIVE LookupAll(_, _)
LookupAll(m, q) ==
    IF q = <<>> THEN Lst(<<>>)
    ELSE LET hit == MapGet(m, Head(q))
         IN  IF IsRaise(hit) THEN hit
             ELSE LET rest == LookupAll(m, Tail(q))
                  IN  IF IsRaise(rest) THEN rest
                      ELSE IF Truthy(hit) THEN Lst(<<hit>> \o rest.v)
                      ELSE rest

_resolve_star_field(entity, m, field_name) ==
    LET value == Get(entity, field_name)
    IN  IF ~Truthy(value) THEN None
        ELSE IF IsList(value) THEN LookupAll(m, value.v)
        ELSE MapGet(m, value)

----------------------------------------------------------------------------
(* Value normalizers *)

\* the first exception among the values of q, evaluated left to right
RECURSIVE FirstRaise(_)
FirstRaise(q) ==
    IF q = <<>> THEN None
    ELSE IF IsRaise(Head(q)) THEN Head(q)
    ELSE FirstRaise(Tail(q))

\* a or b
Or(a, b) == IF Truthy(a) THEN a ELSE b

\* x.get(key) where x need not be a dict: only a dict has .get
AttrGet(x, key) == IF IsDict(x) THEN Get(x, key) ELSE Raise("AttributeError")

_date_from_raw(raw) ==
    IF ~Truthy(raw) THEN None
    ELSE IF ~IsDict(raw) THEN Raise("AttributeError")
    ELSE Dict(("year" :> Get(raw, "year")) @@ ("month" :> Get(raw, "month")))

_date_range_from_raw(raw) ==
    IF ~Truthy(raw) THEN None
    ELSE IF ~IsDict(raw) THEN Raise("AttributeError")
    ELSE LET start == _date_from_raw(Get(raw, "start"))
             end == _date_from_raw(Get(raw, "end"))
             bad == FirstRaise(<<start, end>>)
         IN  IF IsRaise(bad) THEN bad
             ELSE Dict(("start" :> start) @@ ("end" :> end))

----------------------------------------------------------------------------
(* _enrich_position, _enrich_education *)

UnknownTitle == "Unknown Title"
UnknownCompany == "Unknown Company"
UnknownSchool == "Unknown School"

\* variant: the embedded literals are preferred over the resolved company
_enrich_position_LiteralFirst(pos, m) ==
    LET company == _resolve_star_field(pos, m, "*company")
    IN  IF IsRaise(company) THEN company
        ELSE LET title == Or(Get(pos, "title"), Str(UnknownTitle))
                 company_name ==
                     IF "companyName" \in DOMAIN pos.v THEN pos.v["companyName"]
                     ELSE IF Truthy(company) THEN AttrGet(company, "name")
                     ELSE Str(UnknownCompany)
                 company_urn ==
                     IF "companyUrn" \in DOMAIN pos.v THEN pos.v["companyUrn"]
                     ELSE IF Truthy(company) THEN AttrGet(company, "entityUrn")
                     ELSE None
                 date_range == _date_range_from_raw(Get(pos, "dateRange"))
                 bad == FirstRaise(<<company_name, company_urn, date_range>>)
             IN  IF IsRaise(bad) THEN bad
                 ELSE Dict(("title" :> title)
                        @@ ("company_name" :> company_name)
                        @@ ("company_urn" :> company_urn)
                        @@ ("location" :> Get(pos, "locationName"))
                        @@ ("date_range" :> date_range)
                        @@ ("description" :> Get(pos, "description"))
                        @@ ("urn" :> Get(pos, "entityUrn")))

_enrich_position(pos, m) ==
    LET company == _resolve_star_field(pos, m, "*company")
    IN  IF IsRaise(company) THEN company
        ELSE LET title == Or(Get(pos, "title"), Str(UnknownTitle))
                 company_name ==
                     IF Truthy(company) THEN AttrGet(company, "name")
                     ELSE GetOr(pos, "companyName", Str(UnknownCompany))
                 company_urn ==
                     IF Truthy(company) THEN AttrGet(company, "entityUrn")
                     ELSE Get(pos, "companyUrn")
                 date_range == _date_range_from_raw(Get(pos, "dateRange"))
                 bad == FirstRaise(<<company_name, company_urn, date_range>>)
             IN  IF IsRaise(bad) THEN bad
                 ELSE Dict(("title" :> title)
                        @@ ("company_name" :> company_name)
                        @@ ("company_urn" :> company_urn)
                        @@ ("location" :> Get(pos, "locationName"))
                        @@ ("date_range" :> date_range)
                        @@ ("description" :> Get(pos, "description"))
                        @@ ("urn" :> Get(pos, "entityUrn")))

\* variant: the placeholder also stands in for a missing degree name
_enrich_education_DegreeDefault(edu, m) ==
    LET school == _resolve_star_field(edu, m, "*school")
    IN  IF IsRaise(school) THEN school
        ELSE LET school_name ==
                     IF Truthy(school) THEN AttrGet(school, "name")
                     ELSE GetOr(edu, "schoolName", Str(UnknownSchool))
                 date_range == _date_range_from_raw(Get(edu, "dateRange"))
                 bad == FirstRaise(<<school_name, date_range>>)
             IN  IF IsRaise(bad) THEN bad
                 ELSE Dict(("school_name" :> school_name)
                        @@ ("degree_name" :> GetOr(edu, "degreeName", Str(UnknownSchool)))
                        @@ ("field_of_study" :> Get(edu, "fieldOfStudy"))
                        @@ ("date_range" :> date_range)
                        @@ ("urn" :> Get(edu, "entityUrn")))

_enrich_education(edu, m) ==
    LET school == _resolve_star_field(edu, m, "*school")
    IN  IF IsRaise(school) THEN school
        ELSE LET school_name ==
                     IF Truthy(school) THEN AttrGet(school, "name")
                     ELSE GetOr(edu, "schoolName", Str(UnknownSchool))
                 date_range == _date_range_from_raw(Get(edu, "dateRange"))
                 bad == FirstRaise(<<school_name, date_range>>)
             IN  IF IsRaise(bad) THEN bad
                 ELSE Dict(("school_name" :> school_name)
                        @@ ("degree_name" :> Get(edu, "degreeName"))
                        @@ ("field_of_study" :> Get(edu, "fieldOfStudy"))
                        @@ ("date_range" :> date_range)
                        @@ ("urn" :> Get(edu, "entityUrn")))

----------------------------------------------------------------------------
(* _extract_connection_info *)

\* variant: OUT_OF_NETWORK is numbered like the other tokens
DISTANCE_TO_DEGREE_OutOfNetworkNumbered ==
    ("DISTANCE_1" :> Num(1)) @@ ("DISTANCE_2" :> Num(2))
        @@ ("DISTANCE_3" :> Num(3)) @@ ("OUT_OF_NETWORK" :> Num(4))

DISTANCE_TO_DEGREE ==
    ("DISTANCE_1" :> Num(1)) @@ ("DISTANCE_2" :> Num(2))
        @@ ("DISTANCE_3" :> Num(3)) @@ ("OUT_OF_NETWORK" :> None)

\* DISTANCE_TO_DEGREE.get(dist)
DegreeOf(dist) ==
    IF ~Hashable(dist) THEN Raise("TypeError")
    ELSE IF IsStr(dist) /\ dist.v \in DOMAIN DISTANCE_TO_DEGREE
         THEN DISTANCE_TO_DEGREE[dist.v]
    ELSE None

\* sub in s, for strings
Contains(s, sub) ==
    \E i \in 1..(Len(s) - Len(sub) + 1) : SubSeq(s, i, i + Len(sub) - 1) = sub

\* only these support "key in x"; an int raises TypeError
Iterable(x) == x.k \in {"dict", "list", "str"}

\* key in x: a dict's keys, a list's members, a string's substrings
In(key, x) ==
    CASE IsDict(x) -> key \in DOMAIN x.v
      [] IsList(x) -> \E i \in 1..Len(x.v) : x.v[i] = Str(key)
      [] IsStr(x)  -> Contains(x.v, key)

Pair(a, b) == Lst(<<a, b>>)

\* variant: only the connectedMember key marks a direct connection
_extract_connection_info_ConnectedMemberOnly(entity, m) ==
    LET member_rel_urn == Get(entity, "*memberRelationship")
    IN  IF ~Truthy(member_rel_urn) THEN Pair(None, None)
        ELSE LET rel == MapGet(m, member_rel_urn)
             IN  IF IsRaise(rel) THEN rel
                 ELSE IF ~Truthy(rel) THEN Pair(None, None)
                 ELSE LET union == Or(Get(rel, "memberRelationshipUnion"),
                                      Get(rel, "memberRelationshipData"))
                      IN  IF ~Truthy(union) THEN Pair(None, None)
                          ELSE IF ~Iterable(union) THEN Raise("TypeError")
                          ELSE IF In("connectedMember", union)
                               THEN Pair(Str("DISTANCE_1"), Num(1))
                          ELSE IF In("noConnection", union)
                               THEN IF ~IsDict(union) THEN Raise("TypeError")
                                    ELSE LET dist == AttrGet(union.v["noConnection"],
                                                             "memberDistance")
                                         IN  IF IsRaise(dist) THEN dist
                                             ELSE IF IsRaise(DegreeOf(dist))
                                                  THEN DegreeOf(dist)
                                             ELSE Pair(dist, DegreeOf(dist))
                          ELSE Pair(None, None)

_extract_connection_info(entity, m) ==
    LET member_rel_urn == Get(entity, "*memberRelationship")
    IN  IF ~Truthy(member_rel_urn) THEN Pair(None, None)
        ELSE LET rel == MapGet(m, member_rel_urn)
             IN  IF IsRaise(rel) THEN rel
                 ELSE IF ~Truthy(rel) THEN Pair(None, None)
                 ELSE LET union == Or(Get(rel, "memberRelationshipUnion"),
                                      Get(rel, "memberRelationshipData"))
                      IN  IF ~Truthy(union) THEN Pair(None, None)
                          ELSE IF ~Iterable(union) THEN Raise("TypeError")
                          ELSE IF In("connectedMember", union) \/ In("connected", union)
                               THEN Pair(Str("DISTANCE_1"), Num(1))
                          ELSE IF In("noConnection", union)
                               THEN IF ~IsDict(union) THEN Raise("TypeError")
                                    ELSE LET dist == AttrGet(union.v["noConnection"],
                                                             "memberDistance")
                                         IN  IF IsRaise(dist) THEN dist
                                             ELSE IF IsRaise(DegreeOf(dist))
                                                  THEN DegreeOf(dist)
                                             ELSE Pair(dist, DegreeOf(dist))
                          ELSE Pair(None, None)

----------------------------------------------------------------------------
(* parse_linkedin_voyager_response: the Record Selector *)

ProfileType == "com.linkedin.voyager.dash.identity.profile.Profile"

\* variant: the loop has no break, so the last matching entity wins
RECURSIVE ScanForProfile_NoBreak(_, _, _)
ScanForProfile_NoBreak(inc, i, target) ==
    IF i > Len(inc) THEN None
    ELSE LET later == ScanForProfile_NoBreak(inc, i + 1, target)
         IN  IF later # None THEN later
             ELSE IF /\ Get(inc[i], "$type") = Str(ProfileType)
                     /\ (target = None \/ Get(inc[i], "publicIdentifier") = target)
                  THEN inc[i]
             ELSE None

\* the for loop over included: the first entity from index i on that has
\* the Profile $type and, when a target is given, the target's
\* publicIdentifier; None when the loop ends without a break
RECURSIVE ScanForProfile(_, _, _)
ScanForProfile(inc, i, target) ==
    IF i > Len(inc) THEN None
    ELSE IF /\ Get(inc[i], "$type") = Str(ProfileType)
            /\ (target = None \/ Get(inc[i], "publicIdentifier") = target)
         THEN inc[i]
    ELSE ScanForProfile(inc, i + 1, target)

\* x[0]
FirstItem(x) ==
    CASE IsList(x) -> IF Len(x.v) = 0 THEN Raise("IndexError") ELSE x.v[1]
      [] IsStr(x)  -> IF Len(x.v) = 0 THEN Raise("IndexError")
                      ELSE Str(SubSeq(x.v, 1, 1))
      [] IsDict(x) -> Raise("KeyError")
      [] OTHER     -> Raise("TypeError")

\* json_response.get("data", {}).get("*elements", [None])[0]
PrimaryPointer(data) ==
    LET d == GetOr(data, "data", EmptyDict)
    IN  IF ~IsDict(d) THEN Raise("AttributeError")
        ELSE FirstItem(GetOr(d, "*elements", Lst(<<None>>)))

\* the selected root entity, or the exception the selection raises
SelectRoot(data, m, target) ==
    LET found == ScanForProfile(Included(data), 1, target)
    IN  IF Truthy(found) THEN found
        ELSE LET main_urn == PrimaryPointer(data)
             IN  IF IsRaise(main_urn) THEN main_urn
                 ELSE LET entity == MapGet(m, main_urn)
                      IN  IF IsRaise(entity) THEN entity
                          ELSE IF ~Truthy(entity) THEN Raise("ValueError")
                          ELSE entity

----------------------------------------------------------------------------
(* parse_linkedin_voyager_response: the containment chains *)

\* the items a for loop draws from x; None and int are not iterable.  A
\* dict-valued element list is not among the payloads enumerated here.
IterItems(x) ==
    CASE IsList(x) -> x
      [] IsStr(x)  -> Lst([i \in 1..Len(x.v) |-> Str(SubSeq(x.v, i, i))])
      [] x.k \in {"none", "int"} -> Raise("TypeError")

\* variant: each position is put in front of the ones collected so far
RECURSIVE PositionsOfContainer_Prepend(_, _)
PositionsOfContainer_Prepend(m, q) ==
    IF q = <<>> THEN Lst(<<>>)
    ELSE LET pos == MapGet(m, Head(q))
         IN  IF IsRaise(pos) THEN pos
             ELSE LET here == IF Truthy(pos) THEN _enrich_position(pos, m) ELSE None
                  IN  IF IsRaise(here) THEN here
                      ELSE LET rest == PositionsOfContainer_Prepend(m, Tail(q))
                           IN  IF IsRaise(rest) THEN rest
                               ELSE IF Truthy(pos) THEN Lst(rest.v \o <<here>>)
                               ELSE rest

\* for pos_urn in q: pos = urn_map.get(pos_urn); if pos: append(enrich)
RECURSIVE PositionsOfContainer(_, _)
PositionsOfContainer(m, q) ==
    IF q = <<>> THEN Lst(<<>>)
    ELSE LET pos == MapGet(m, Head(q))
         IN  IF IsRaise(pos) THEN pos
             ELSE LET here == IF Truthy(pos) THEN _enrich_position(pos, m) ELSE None
                  IN  IF IsRaise(here) THEN here
                      ELSE LET rest == PositionsOfContainer(m, Tail(q))
                           IN  IF IsRaise(rest) THEN rest
                               ELSE IF Truthy(pos) THEN Lst(<<here>> \o rest.v)
                               ELSE rest

\* the body of the loop over groups: the positions one group contributes
GroupPositions(m, group_urn) ==
    LET group == MapGet(m, group_urn)
    IN  IF IsRaise(group) THEN group
        ELSE IF ~Truthy(group) THEN Lst(<<>>)
        ELSE LET positions_urn == Get(group, "*profilePositionInPositionGroup")
             IN  IF ~Truthy(positions_urn) THEN Lst(<<>>)
                 ELSE LET pos_coll == MapGet(m, positions_urn)
                      IN  IF IsRaise(pos_coll) THEN pos_coll
                          ELSE IF ~Truthy(pos_coll) THEN Lst(<<>>)
                          ELSE LET items == IterItems(GetOr(pos_coll, "*elements", Lst(<<>>)))
                               IN  IF IsRaise(items) THEN items
                                   ELSE PositionsOfContainer(m, items.v)

\* for group_urn in q: ...
RECURSIVE PositionsOfGroups(_, _)
PositionsOfGroups(m, q) ==
    IF q = <<>> THEN Lst(<<>>)
    ELSE LET here == GroupPositions(m, Head(q))
         IN  IF IsRaise(here) THEN here
             ELSE LET rest == PositionsOfGroups(m, Tail(q))
                  IN  IF IsRaise(rest) THEN rest
                      ELSE Lst(here.v \o rest.v)

\* the positions list, or the exception building it raises
Positions(entity, m) ==
    LET pos_groups_urn == Get(entity, "*profilePositionGroups")
    IN  IF ~Truthy(pos_groups_urn) THEN Lst(<<>>)
        ELSE LET group_resp == MapGet(m, pos_groups_urn)
             IN  IF IsRaise(group_resp) THEN group_resp
                 ELSE IF ~Truthy(group_resp) THEN Lst(<<>>)
                 ELSE LET items == IterItems(GetOr(group_resp, "*elements", Lst(<<>>)))
                      IN  IF IsRaise(items) THEN items
                          ELSE PositionsOfGroups(m, items.v)

\* for e_urn in q: edu = urn_map.get(e_urn); if edu: append(enrich)
RECURSIVE EducationsOfCollection(_, _)
EducationsOfCollection(m, q) ==
    IF q = <<>> THEN Lst(<<>>)
    ELSE LET edu == MapGet(m, Head(q))
         IN  IF IsRaise(edu) THEN edu
             ELSE LET here == IF Truthy(edu) THEN _enrich_education(edu, m) ELSE None
                  IN  IF IsRaise(here) THEN here
                      ELSE LET rest == EducationsOfCollection(m, Tail(q))
                           IN  IF IsRaise(rest) THEN rest
                               ELSE IF Truthy(edu) THEN Lst(<<here>> \o rest.v)
                               ELSE rest

\* the educations list, or the exception building it raises
Educations(entity, m) ==
    LET edu_urn == Get(entity, "*profileEducations")
    IN  IF ~Truthy(edu_urn) THEN Lst(<<>>)
        ELSE LET edu_coll == MapGet(m, edu_urn)
             IN  IF IsRaise(edu_coll) THEN edu_coll
                 ELSE IF ~Truthy(edu_coll) THEN Lst(<<>>)
                 ELSE LET items == IterItems(GetOr(edu_coll, "*elements", Lst(<<>>)))
                      IN  IF IsRaise(items) THEN items
                          ELSE EducationsOfCollection(m, items.v)

----------------------------------------------------------------------------
(* parse_linkedin_voyager_response: the Profile record *)

IsSpace(c) == c \in {" ", "\t", "\n", "\r"}

RECURSIVE LStrip(_)
LStrip(s) ==
    IF Len(s) > 0 /\ IsSpace(SubSeq(s, 1, 1)) THEN LStrip(SubSeq(s, 2, Len(s)))
    ELSE s

RECURSIVE RStrip(_)
RStrip(s) ==
    IF Len(s) > 0 /\ IsSpace(SubSeq(s, Len(s), Len(s)))
    THEN RStrip(SubSeq(s, 1, Len(s) - 1))
    ELSE s

\* s.strip()
Strip(s) == RStrip(LStrip(s))

\* how an f-string renders a value: a string as itself, None as "None"
PyStr(x) ==
    CASE IsStr(x) -> x.v
      [] x.k = "none" -> "None"
      [] x.k = "int" -> ToString(x.v)

ProfileUrlPrefix == "https://www.linkedin.com/in/"

\* the statements after the root is selected, up to asdict(profile_obj):
\* the Profile as a dict, or the exception that escapes
Materialize(entity, m) ==
    LET first_name == GetOr(entity, "firstName", Str(""))
        last_name == GetOr(entity, "lastName", Str(""))
        conn == _extract_connection_info(entity, m)
        positions == Positions(entity, m)
        educations == Educations(entity, m)
        urn == IF "entityUrn" \in DOMAIN entity.v THEN entity.v["entityUrn"]
               ELSE Raise("KeyError")
        geo == _resolve_star_field(entity, m, "*geo")
        industry == _resolve_star_field(entity, m, "*industry")
        bad == FirstRaise(<<conn, positions, educations, urn, geo, industry>>)
    IN  IF IsRaise(bad) THEN bad
        ELSE Dict(("url" :> Str(ProfileUrlPrefix
                        \o PyStr(GetOr(entity, "publicIdentifier", Str(""))) \o "/"))
               @@ ("urn" :> urn)
               @@ ("full_name" :> Str(Strip(PyStr(first_name) \o " " \o PyStr(last_name))))
               @@ ("first_name" :> first_name)
               @@ ("last_name" :> last_name)
               @@ ("headline" :> Get(entity, "headline"))
               @@ ("summary" :> Get(entity, "summary"))
               @@ ("public_identifier" :> Get(entity, "publicIdentifier"))
               @@ ("location_name" :> Get(entity, "locationName"))
               @@ ("geo" :> geo)
               @@ ("industry" :> industry)
               @@ ("positions" :> positions)
               @@ ("educations" :> educations)
               @@ ("connection_distance" :> conn.v[1])
               @@ ("connection_degree" :> conn.v[2]))

----------------------------------------------------------------------------
(* One call of parse_linkedin_voyager_response *)

\* variant: the graph of the previous call is kept and added to
ParseResolveReferences_KeepsGraph ==
    /\ pc = "start"
    /\ urn_map' = urn_map @@ _resolve_references(json_response)
    /\ pc' = "select"
    /\ UNCHANGED <<json_response, public_identifier, profile_entity, result,
                   arg_entity, arg_field, url, others>>

\* urn_map = _resolve_references(json_response)
ParseResolveReferences ==
    /\ pc = "start"
    /\ urn_map' = _resolve_references(json_response)
    /\ pc' = "select"
    /\ UNCHANGED <<json_response, public_identifier, profile_entity, result,
                   arg_entity, arg_field, url, others>>

\* the selector: the scan, the pointer fallback and the ValueError
ParseSelectRoot ==
    /\ pc = "select"
    /\ LET root == SelectRoot(json_response, urn_map, public_identifier)
       IN  IF IsRaise(root)
           THEN /\ result' = root
                /\ pc' = "raised"
                /\ UNCHANGED profile_entity
           ELSE /\ profile_entity' = root
                /\ pc' = "materialize"
                /\ UNCHANGED result
    /\ UNCHANGED <<json_response, public_identifier, urn_map, arg_entity, arg_field, url, others>>

\* everything after the selector, up to the return
ParseMaterialize ==
    /\ pc = "materialize"
    /\ result' = Materialize(profile_entity, urn_map)
    /\ pc' = IF IsRaise(result') THEN "raised" ELSE "returned"
    /\ UNCHANGED <<json_response, public_identifier, urn_map, profile_entity,
                   arg_entity, arg_field, url, others>>

NextParse == ParseResolveReferences \/ ParseSelectRoot \/ ParseMaterialize

----------------------------------------------------------------------------
(* scrapers/linkedin.py: parse_profile_response, the second parser.  Its
   _resolve_references, _resolve_star_field, _enrich_position and
   _enrich_education are the same code as main.py's. *)

\* s.startswith(prefix)
Startswith(s, prefix) ==
    Len(s) >= Len(prefix) /\ SubSeq(s, 1, Len(prefix)) = prefix

\* the if/elif chain of scrapers/linkedin.py's _extract_connection_info
DegreeByChain(distance) ==
    IF distance = Str("DISTANCE_1") THEN Num(1)
    ELSE IF distance = Str("DISTANCE_2") THEN Num(2)
    ELSE IF distance = Str("DISTANCE_3") THEN Num(3)
    ELSE None

\* _extract_connection_info of scrapers/linkedin.py
_extract_connection_info_scrapers(entity, m) ==
    LET member_rel_urn == Get(entity, "*memberRelationship")
    IN  IF ~Truthy(member_rel_urn) THEN Pair(None, None)
        ELSE LET rel == MapGet(m, member_rel_urn)
             IN  IF IsRaise(rel) THEN rel
                 ELSE IF ~Truthy(rel) THEN Pair(None, None)
                 ELSE LET union == Or(Get(rel, "memberRelationshipUnion"),
                                      Get(rel, "memberRelationshipData"))
                      IN  IF ~Truthy(union) THEN Pair(None, None)
                          ELSE LET distance == AttrGet(union, "distance")
                               IN  IF IsRaise(distance) THEN distance
                                   ELSE Pair(distance, DegreeByChain(distance))

\* the scan for the main profile entity: the first entity whose entityUrn
\* starts with a profile prefix and whose firstName is truthy
RECURSIVE ProfileScan(_, _)
ProfileScan(inc, i) ==
    IF i > Len(inc) THEN None
    ELSE LET urn == GetOr(inc[i], "entityUrn", Str(""))
         IN  IF ~IsStr(urn) THEN Raise("AttributeError")
             ELSE IF /\ \/ Startswith(urn.v, "urn:li:fs_profile:")
                        \/ Startswith(urn.v, "urn:li:fsd_profile:")
                     /\ Truthy(Get(inc[i], "firstName"))
                  THEN inc[i]
             ELSE ProfileScan(inc, i + 1)

\* positions + [item] after the items of the rest of the loop
Appended(item, rest) ==
    IF IsRaise(item) THEN item
    ELSE IF IsRaise(rest) THEN rest
    ELSE Lst(<<item>> \o rest.v)

\* positions + more, where either may be the exception that was raised
Extended(here, rest) ==
    IF IsRaise(here) THEN here
    ELSE IF IsRaise(rest) THEN rest
    ELSE Lst(here.v \o rest.v)

\* for pos in q: positions.append(_enrich_position(pos, urn_map))
RECURSIVE EnrichPositions(_, _)
EnrichPositions(m, q) ==
    IF q = <<>> THEN Lst(<<>>)
    ELSE Appended(_enrich_position(Head(q), m), EnrichPositions(m, Tail(q)))

\* for edu in q: educations.append(_enrich_education(edu, urn_map))
RECURSIVE EnrichEducations(_, _)
EnrichEducations(m, q) ==
    IF q = <<>> THEN Lst(<<>>)
    ELSE Appended(_enrich_education(Head(q), m), EnrichEducations(m, Tail(q)))

\* "if view: for x in view": nothing for a falsy view; a list gives its
\* entities; a single entity is a dict, the loop draws its keys, and the
\* first use of a key as an entity raises AttributeError
ViewItems(view) ==
    IF IsRaise(view) THEN view
    ELSE IF ~Truthy(view) THEN Lst(<<>>)
    ELSE IF IsList(view) THEN view
    ELSE Raise("AttributeError")

\* the loop over the positions of one group
PositionsOfView(m, items) ==
    IF IsRaise(items) THEN items ELSE EnrichPositions(m, items.v)

\* the body of the loop over groups
ViewGroupPositions(m, group) ==
    PositionsOfView(m,
        ViewItems(_resolve_star_field(group, m, "*profilePositionInPositionGroup")))

RECURSIVE ViewPositionsOfGroups(_, _)
ViewPositionsOfGroups(m, q) ==
    IF q = <<>> THEN Lst(<<>>)
    ELSE Extended(ViewGroupPositions(m, Head(q)), ViewPositionsOfGroups(m, Tail(q)))

\* the loop over the groups
GroupsOfView(m, items) ==
    IF IsRaise(items) THEN items ELSE ViewPositionsOfGroups(m, items.v)

ViewPositions(entity, m) ==
    GroupsOfView(m, ViewItems(_resolve_star_field(entity, m, "*profilePositionGroups")))

\* the loop over the educations
EducationsOfView(m, items) ==
    IF IsRaise(items) THEN items ELSE EnrichEducations(m, items.v)

ViewEducations(entity, m) ==
    EducationsOfView(m, ViewItems(_resolve_star_field(entity, m, "*profileEducations")))

\* the returned dict, built from the values computed before it
ProfileRecord(entity, first_name, last_name, positions, educations, conn, urn, geo, industry) ==
    IF IsRaise(FirstRaise(<<positions, educations, conn, urn, geo, industry>>))
    THEN FirstRaise(<<positions, educations, conn, urn, geo, industry>>)
    ELSE Dict(("urn" :> urn)
           @@ ("first_name" :> first_name)
           @@ ("last_name" :> last_name)
           @@ ("full_name" :> Str(Strip(PyStr(first_name) \o " " \o PyStr(last_name))))
           @@ ("headline" :> Get(entity, "headline"))
           @@ ("summary" :> Get(entity, "summary"))
           @@ ("public_identifier" :> Get(entity, "publicIdentifier"))
           @@ ("location_name" :> Get(entity, "locationName"))
           @@ ("geo" :> geo)
           @@ ("industry" :> industry)
           @@ ("url" :> Str(ProfileUrlPrefix
                    \o PyStr(GetOr(entity, "publicIdentifier", Str(""))) \o "/"))
           @@ ("positions" :> positions)
           @@ ("educations" :> educations)
           @@ ("connection_distance" :> conn.v[1])
           @@ ("connection_degree" :> conn.v[2]))

\* the statements after the root is found, up to the returned dict
ProfileDict(entity, m) ==
    ProfileRecord(entity,
        GetOr(entity, "firstName", Str("")),
        GetOr(entity, "lastName", Str("")),
        ViewPositions(entity, m),
        ViewEducations(entity, m),
        _extract_connection_info_scrapers(entity, m),
        IF "entityUrn" \in DOMAIN entity.v THEN entity.v["entityUrn"] ELSE Raise("KeyError"),
        _resolve_star_field(entity, m, "*geo"),
        _resolve_star_field(entity, m, "*industry"))

\* urn_map = _resolve_references(data)
ProfileResolveReferences ==
    /\ pc = "start"
    /\ urn_map' = _resolve_references(json_response)
    /\ pc' = "p_select"
    /\ UNCHANGED <<json_response, public_identifier, profile_entity, result,
                   arg_entity, arg_field, url, others>>

\* the scan, and the return of None when it finds no profile entity
ProfileSelectRoot ==
    /\ pc = "p_select"
    /\ LET root == ProfileScan(Included(json_response), 1)
       IN  IF IsRaise(root)
           THEN /\ result' = root
                /\ pc' = "p_raised"
                /\ UNCHANGED profile_entity
           ELSE IF ~Truthy(root)
           THEN /\ result' = None
                /\ pc' = "p_returned"
                /\ UNCHANGED profile_entity
           ELSE /\ profile_entity' = root
                /\ pc' = "p_materialize"
                /\ UNCHANGED result
    /\ UNCHANGED <<json_response, public_identifier, urn_map, arg_entity, arg_field, url, others>>

\* everything after the scan, up to the return
ProfileMaterialize ==
    /\ pc = "p_materialize"
    /\ result' = ProfileDict(profile_entity, urn_map)
    /\ pc' = IF IsRaise(result') THEN "p_raised" ELSE "p_returned"
    /\ UNCHANGED <<json_response, public_identifier, urn_map, profile_entity,
                   arg_entity, arg_field, url, others>>

NextProfile == ProfileResolveReferences \/ ProfileSelectRoot \/ ProfileMaterialize

\* either parser is run on the payload
NextBoth == NextParse \/ NextProfile

----------------------------------------------------------------------------
(* url_to_public_id *)

\* s.find(sub, from): the first index at or after from where sub starts,
\* 0 when there is none (indices count from 1)
FindFrom(s, sub, from) ==
    LET At(i) == SubSeq(s, i, i + Len(sub) - 1) = sub
        Hits == {i \in from..(Len(s) - Len(sub) + 1) : At(i)}
    IN  IF Hits = {} THEN 0 ELSE CHOOSE i \in Hits : \A j \in Hits : i <= j

\* s.rfind(sub): the last index where sub starts, 0 when there is none
RFind(s, sub) ==
    LET Hits == {i \in 1..(Len(s) - Len(sub) + 1) : SubSeq(s, i, i + Len(sub) - 1) = sub}
    IN  IF Hits = {} THEN 0 ELSE CHOOSE i \in Hits : \A j \in Hits : i >= j

Letters ==
    {"a", "b", "c", "d", "e", "f", "g", "h", "i", "j", "k", "l", "m",
     "n", "o", "p", "q", "r", "s", "t", "u", "v", "w", "x", "y", "z"}

\* urllib.parse.scheme_chars, lower case
SchemeChars == Letters \cup {"0", "1", "2", "3", "4", "5", "6", "7", "8", "9", "+", "-", "."}

\* urllib.parse.uses_params
UsesParams ==
    {"", "ftp", "hdl", "prospero", "http", "imap", "https", "shttp", "rtsp",
     "rtspu", "sip", "sips", "mms", "sftp", "tel"}

\* urlsplit: the text before the first ":" is the scheme when it starts
\* with a letter and holds scheme characters only
SchemeEnd(s) ==
    LET i == FindFrom(s, ":", 1)
    IN  IF /\ i > 1
           /\ SubSeq(s, 1, 1) \in Letters
           /\ \A k \in 1..(i - 1) : SubSeq(s, k, k) \in SchemeChars
        THEN i ELSE 0

\* _splitnetloc: the network location runs from after "//" to the first
\* of "/", "?" and "#"
NetlocEnd(s) ==
    LET Delims == {FindFrom(s, d, 3) : d \in {"/", "?", "#"}} \ {0}
    IN  IF Delims = {} THEN Len(s) + 1 ELSE CHOOSE i \in Delims : \A j \in Delims : i <= j

\* the text before the first occurrence of sub, all of s when there is none
Before(s, sub) ==
    IF FindFrom(s, sub, 1) = 0 THEN s ELSE SubSeq(s, 1, FindFrom(s, sub, 1) - 1)

\* _splitparams: the parameters start at the first ";" of the last segment
SplitParams(s) ==
    LET i == IF RFind(s, "/") > 0 THEN FindFrom(s, ";", RFind(s, "/"))
             ELSE FindFrom(s, ";", 1)
    IN  IF i = 0 THEN s ELSE SubSeq(s, 1, i - 1)

\* urllib.parse.urlparse(url).path, or the ValueError of an unbalanced
\* bracket in the network location
UrlPath(u) ==
    LET stripped == LStrip(u)
        scheme == IF SchemeEnd(stripped) > 0
                  THEN SubSeq(stripped, 1, SchemeEnd(stripped) - 1) ELSE ""
        rest == IF SchemeEnd(stripped) > 0
                THEN SubSeq(stripped, SchemeEnd(stripped) + 1, Len(stripped))
                ELSE stripped
        hasNetloc == Len(rest) >= 2 /\ SubSeq(rest, 1, 2) = "//"
        netloc == IF hasNetloc THEN SubSeq(rest, 3, NetlocEnd(rest) - 1) ELSE ""
        afterNetloc == IF hasNetloc THEN SubSeq(rest, NetlocEnd(rest), Len(rest)) ELSE rest
        noQuery == Before(Before(afterNetloc, "#"), "?")
    IN  IF Contains(netloc, "[") # Contains(netloc, "]") THEN Raise("ValueError")
        ELSE IF scheme \in UsesParams /\ Contains(noQuery, ";")
             THEN Str(SplitParams(noQuery))
        ELSE Str(noQuery)

\* [p for p in path.split('/') if p]
RECURSIVE Parts(_)
Parts(path) ==
    IF path = "" THEN <<>>
    ELSE LET i == FindFrom(path, "/", 1)
         IN  IF i = 0 THEN <<path>>
             ELSE (IF i = 1 THEN <<>> ELSE <<SubSeq(path, 1, i - 1)>>)
                     \o Parts(SubSeq(path, i + 1, Len(path)))

\* path.strip("/")
RECURSIVE StripSlashes(_)
StripSlashes(s) ==
    IF Len(s) > 0 /\ SubSeq(s, 1, 1) = "/" THEN StripSlashes(SubSeq(s, 2, Len(s)))
    ELSE IF Len(s) > 0 /\ SubSeq(s, Len(s), Len(s)) = "/"
         THEN StripSlashes(SubSeq(s, 1, Len(s) - 1))
    ELSE s

\* parts.index(x): the first position of x in parts, 0 when it is not there
IndexOf(parts, x) ==
    IF \E i \in 1..Len(parts) : parts[i] = x
    THEN CHOOSE i \in 1..Len(parts) : parts[i] = x /\ \A j \in 1..(i - 1) : parts[j] # x
    ELSE 0

\* variant: the marker segment itself is returned
url_to_public_id_ReturnsMarker(u) ==
    IF u = "" THEN Str("")
    ELSE IF ~Contains(u, "linkedin.com") THEN Str(u)
    ELSE LET path == UrlPath(u)
         IN  IF IsRaise(path) THEN path
             ELSE LET parts == Parts(path.v)
                      index == IndexOf(parts, "in")
                  IN  IF index > 0 /\ index + 1 <= Len(parts) THEN Str(parts[index])
                      ELSE Str(StripSlashes(path.v))

url_to_public_id(u) ==
    IF u = "" THEN Str("")
    ELSE IF ~Contains(u, "linkedin.com") THEN Str(u)
    ELSE LET path == UrlPath(u)
         IN  IF IsRaise(path) THEN path
             ELSE LET parts == Parts(path.v)
                      index == IndexOf(parts, "in")
                  IN  IF index > 0 /\ index + 1 <= Len(parts) THEN Str(parts[index + 1])
                      ELSE Str(StripSlashes(path.v))

\* one call of url_to_public_id
CallUrlToPublicId ==
    /\ pc = "u_start"
    /\ result' = url_to_public_id(url)
    /\ pc' = IF IsRaise(result') THEN "u_raised" ELSE "u_returned"
    /\ UNCHANGED <<json_response, public_identifier, urn_map, profile_entity,
                   arg_entity, arg_field, url, others>>

NextUrl == CallUrlToPublicId

----------------------------------------------------------------------------
(* scrapers/search.py and profiles.py: ProfileDatabase.save_results *)

ProfilePath == "linkedin.com/in/"

\* the rows of the table that hold the href
RowsOf(tbl, href) == {i \in 1..Len(tbl) : tbl[i].href = href}

\* "if result.href and 'linkedin.com/in/' in result.href"
Storable(r) == r.href # "" /\ Contains(r.href, ProfilePath)

\* variant: INSERT OR REPLACE, the stored row takes the new texts
InsertOrIgnore_Replaces(tbl, r) ==
    IF RowsOf(tbl, r.href) # {}
    THEN [i \in 1..Len(tbl) |->
             IF tbl[i].href = r.href
             THEN [href |-> r.href, title |-> r.title, description |-> r.description]
             ELSE tbl[i]]
    ELSE Append(tbl, [href |-> r.href, title |-> r.title, description |-> r.description])

\* INSERT OR IGNORE INTO profiles: href is UNIQUE, so a row whose href is
\* stored is ignored; a new row gets the next id
InsertOrIgnore(tbl, r) ==
    IF RowsOf(tbl, r.href) # {} THEN tbl
    ELSE Append(tbl, [href |-> r.href, title |-> r.title, description |-> r.description])

\* the connection's total_changes after the statement: one more for a row
\* that was inserted, the same for one that was ignored
ChangesAfter(tbl, tc, r) == IF RowsOf(tbl, r.href) # {} THEN tc ELSE tc + 1

\* scrapers/search.py: the loop of save_results; count grows whenever
\* total_changes is positive after the statement
RECURSIVE SaveLoop(_, _, _, _)
SaveLoop(tbl, tc, cnt, results) ==
    IF results = <<>> THEN [table |-> tbl, total_changes |-> tc, count |-> cnt]
    ELSE IF ~Storable(Head(results))
         THEN SaveLoop(tbl, tc, cnt, Tail(results))
    ELSE SaveLoop(InsertOrIgnore(tbl, Head(results)),
                  ChangesAfter(tbl, tc, Head(results)),
                  IF ChangesAfter(tbl, tc, Head(results)) > 0 THEN cnt + 1 ELSE cnt,
                  Tail(results))

\* profiles.py: the loop of save_results; count grows with every statement
RECURSIVE SaveLoopCli(_, _, _, _)
SaveLoopCli(tbl, tc, cnt, results) ==
    IF results = <<>> THEN [table |-> tbl, total_changes |-> tc, count |-> cnt]
    ELSE IF ~Storable(Head(results))
         THEN SaveLoopCli(tbl, tc, cnt, Tail(results))
    ELSE SaveLoopCli(InsertOrIgnore(tbl, Head(results)),
                     ChangesAfter(tbl, tc, Head(results)),
                     cnt + 1,
                     Tail(results))

\* scrapers/search.py: ProfileDatabase.save_results(results)
save_results(tbl, tc, results) == SaveLoop(tbl, tc, 0, results)

\* profiles.py: ProfileDatabase.save_results(results)
save_results_cli(tbl, tc, results) == SaveLoopCli(tbl, tc, 0, results)

----------------------------------------------------------------------------
(* scrapers/search.py: ProfileSearcher._search_ddgs and search *)

\* the loop over the engine's results: a result whose href holds the
\* profile path becomes a ProfileSearchResult; an href that is no string
\* raises in the test, the except clause ends the loop, and the results
\* collected so far are returned
RECURSIVE HitsOf(_)
HitsOf(raw) ==
    IF raw = <<>> THEN <<>>
    ELSE LET href == GetOr(Head(raw), "href", Str(""))
         IN  IF ~IsStr(href) THEN <<>>
             ELSE IF Contains(href.v, ProfilePath)
                  THEN <<[href |-> href.v, title |-> Get(Head(raw), "title"),
                          description |-> Get(Head(raw), "body")]>> \o HitsOf(Tail(raw))
             ELSE HitsOf(Tail(raw))

\* _search_ddgs: nothing when DDGS().text raises
_search_ddgs(answer) == IF IsRaise(answer) THEN <<>> ELSE HitsOf(answer.v)

\* variant: a later result replaces the earlier one with the same href
RECURSIVE Deduplicate_LastWins(_, _)
Deduplicate_LastWins(results, seen) ==
    IF results = <<>> THEN <<>>
    ELSE IF \E i \in 2..Len(results) : results[i].href = Head(results).href
         THEN Deduplicate_LastWins(Tail(results), seen)
    ELSE <<Head(results)>> \o Deduplicate_LastWins(Tail(results), seen)

\* the loop "for r in all_results: if r.href not in seen: ..."
RECURSIVE Deduplicate(_, _)
Deduplicate(results, seen) ==
    IF results = <<>> THEN <<>>
    ELSE IF Head(results).href \in seen THEN Deduplicate(Tail(results), seen)
    ELSE <<Head(results)>> \o Deduplicate(Tail(results), seen \cup {Head(results).href})

----------------------------------------------------------------------------
(* main.py: run, and crawler/developer.py: extract and extract_batch *)

\* what api.get_profile does for an entered target: a profile, no profile
\* (the parser found no root, or the answer was 403), or an exception
\* (no identifier, 401, another status, a payload the parser raises on)
GetProfileFates ==
    {"profile", "none", "ValueError", "AuthenticationError", "Exception", "KeyError"}

\* the body of the loop of run for one target: the profile is printed and
\* saved, "Could not fetch profile" is printed, or the except clause prints
\* the error
RunOutcome(fate) ==
    IF fate = "profile" THEN Str("saved")
    ELSE IF fate = "none" THEN Str("not_fetched")
    ELSE Str("error")

\* what an extract call meets: a crawled page that parses, a crawl that
\* reports failure, or an exception inside the try block
ExtractFates == {"parsed", "crawl_failed", "raises"}

\* extract: the DeveloperCrawlResponse for the url
ExtractResponse(fate) ==
    [k |-> "response", success |-> fate = "parsed", error |-> fate # "parsed"]

\* the outcomes with the one of item i set
Settled(i, outcome) == [outcomes EXCEPT ![i] = outcome]

\* variant: an exception leaves the loop
RunItem_ErrorEndsLoop ==
    /\ b_pc = "b_loop"
    /\ b_next <= Len(batch)
    /\ outcomes' = Settled(b_next, RunOutcome(batch[b_next]))
    /\ b_next' = b_next + 1
    /\ b_pc' = IF RunOutcome(batch[b_next]) = Str("error") THEN "b_done" ELSE b_pc
    /\ UNCHANGED <<batch, outsideBatch>>

\* run: one round of the loop for an entered target
RunItem ==
    /\ b_pc = "b_loop"
    /\ b_next <= Len(batch)
    /\ outcomes' = Settled(b_next, RunOutcome(batch[b_next]))
    /\ b_next' = b_next + 1
    /\ b_pc' = b_pc
    /\ UNCHANGED <<batch, outsideBatch>>

\* run: the user enters q
RunQuit ==
    /\ b_pc = "b_loop"
    /\ b_next > Len(batch)
    /\ b_pc' = "b_done"
    /\ UNCHANGED <<batch, outcomes, b_next, outsideBatch>>

\* extract_batch: the extract task of url i finishes; the tasks of
\* asyncio.gather finish in any order
ExtractTask(i) ==
    /\ b_pc = "b_gather"
    /\ outcomes[i] = None
    /\ outcomes' = Settled(i, ExtractResponse(batch[i]))
    /\ UNCHANGED <<batch, b_next, b_pc, outsideBatch>>

\* extract_batch: gather returns the responses once every task has finished
GatherReturn ==
    /\ b_pc = "b_gather"
    /\ \A i \in 1..Len(batch) : outcomes[i] # None
    /\ b_pc' = "b_done"
    /\ UNCHANGED <<batch, outcomes, b_next, outsideBatch>>

NextBatch ==
    \/ RunItem
    \/ RunQuit
    \/ \E i \in 1..Len(batch) : ExtractTask(i)
    \/ GatherReturn

----------------------------------------------------------------------------
(* Bounds and the entities the resolver is exercised on *)

MaxIncluded == 3    \* longest included collection of the resolver runs
MaxRefs == 3        \* longest raw reference list

\* all sequences over S of length lo..hi
SeqsBetween(S, lo, hi) == UNION {[1..n -> S] : n \in lo..hi}

Mk2(k1, v1, k2, v2) == Dict((k1 :> v1) @@ (k2 :> v2))

\* included entities: two sharing "u1", one lacking an identifier, and two
\* whose identifier is falsy
GraphPool ==
    { Mk2("entityUrn", Str("u1"), "name", Str("A")),
      Mk2("entityUrn", Str("u1"), "name", Str("B")),
      Mk2("entityUrn", Str("u2"), "name", Str("C")),
      Dict("name" :> Str("D")),
      Mk2("entityUrn", Str(""), "name", Str("E")),
      Mk2("entityUrn", None, "name", Str("F")) }

RefIds == {Str("u1"), Str("u2"), Str("u9")}     \* "u9" is in no graph

\* raw values of a reference field: null, falsy, one identifier, a list
RefValues ==
    {None, Str("")} \cup RefIds
        \cup {Lst(q) : q \in SeqsBetween(RefIds, 0, MaxRefs)}

\* a literal structured value, as the payload's dateRange fields carry
DateRangeLit == Dict("start" :> Dict("year" :> Num(2020)))

FieldNames == {"*company", "*school", "dateRange"}

\* entities handed to the resolver: "*school" is always absent
ArgEntities == {Mk2("*company", v, "dateRange", DateRangeLit) : v \in RefValues}

----------------------------------------------------------------------------
(* Resolver runs: build the graph, then resolve one field of one entity *)

InitResolve ==
    /\ json_response \in
           {Dict("included" :> Lst(q)) : q \in SeqsBetween(GraphPool, 0, MaxIncluded)}
    /\ public_identifier = None
    /\ pc = "rs_start"
    /\ urn_map = EmptyMap
    /\ profile_entity = None
    /\ result = None
    /\ arg_entity \in ArgEntities
    /\ arg_field \in FieldNames
    /\ url = ""
    /\ OthersIdle

CallResolveReferences ==
    /\ pc = "rs_start"
    /\ urn_map' = _resolve_references(json_response)
    /\ pc' = "rs_graph"
    /\ UNCHANGED <<json_response, public_identifier, profile_entity, result,
                   arg_entity, arg_field, url, others>>

CallResolveStarField ==
    /\ pc = "rs_graph"
    /\ result' = _resolve_star_field(arg_entity, urn_map, arg_field)
    /\ pc' = "rs_done"
    /\ UNCHANGED <<json_response, public_identifier, urn_map, profile_entity,
                   arg_entity, arg_field, url, others>>

NextResolve == CallResolveReferences \/ CallResolveStarField

SpecResolve == InitResolve /\ [][NextResolve]_vars

----------------------------------------------------------------------------
(* Resolver properties *)

RawValue == Get(arg_entity, arg_field)

\* C6: resolution totality - _resolve_star_field never raises, whatever
\* the entity, the graph and the field name, and a list result is never
\* longer than the raw reference list it was resolved from.
C6_ResolutionTotality ==
    pc = "rs_done" =>
        /\ ~IsRaise(result)
        /\ result.k \in {"none", "dict", "list"}
        /\ IsList(result) => IsList(RawValue) /\ Len(result.v) <= Len(RawValue.v)

\* the raw value is absent, falsy, an identifier or a list of identifiers
IsReferenceShaped(x) ==
    \/ x.k \in {"none", "str"}
    \/ IsList(x) /\ \A i \in 1..Len(x.v) : IsStr(x.v[i])

\* the entities a list of identifiers maps to, unmapped ones dropped
MappedOnes(m, q) ==
    LET kept == SelectSeq(q, LAMBDA r : r.v \in DOMAIN m)
    IN  [i \in 1..Len(kept) |-> m[kept[i].v]]

\* C7: on a reference-shaped raw value _resolve_star_field is graph
\* lookup: absent or falsy gives no value, one identifier gives the entity
\* the graph maps it to or no value, a list gives the mapped entities in
\* the raw list's order with exactly the unmapped identifiers dropped.
C7_ResolveIsLookup ==
    (pc = "rs_done" /\ IsReferenceShaped(RawValue)) =>
        CASE ~Truthy(RawValue) -> result = None
          [] IsStr(RawValue) /\ RawValue.v # "" ->
                 result = (IF RawValue.v \in DOMAIN urn_map
                           THEN urn_map[RawValue.v] ELSE None)
          [] OTHER -> result = Lst(MappedOnes(urn_map, RawValue.v))

\* a list with a mapped, an unmapped and again a mapped identifier, in an
\* order that differs from the graph's, resolved to the two mapped entities
C7_Witness ==
    /\ pc = "rs_done"
    /\ RawValue = Lst(<<Str("u2"), Str("u9"), Str("u1")>>)
    /\ Included(json_response) =
           << Mk2("entityUrn", Str("u1"), "name", Str("A")),
              Mk2("entityUrn", Str("u2"), "name", Str("C")) >>
    /\ result = Lst(<< Mk2("entityUrn", Str("u2"), "name", Str("C")),
                       Mk2("entityUrn", Str("u1"), "name", Str("A")) >>)

\* the identifiers carried by included entities
CarriedIds(inc) ==
    {Get(inc[i], "entityUrn").v : i \in {j \in 1..Len(inc) : Truthy(Get(inc[j], "entityUrn"))}}

LastIndexOf(inc, id) ==
    CHOOSE i \in 1..Len(inc) :
        /\ Get(inc[i], "entityUrn") = Str(id)
        /\ \A j \in (i + 1)..Len(inc) : Get(inc[j], "entityUrn") # Str(id)

\* C8: the graph's key set is exactly the identifiers carried by included
\* entities, each identifier maps to the last entity carrying it in
\* payload order, entities without an identifier are skipped, and an
\* empty collection gives an empty graph.
C8_GraphIndex ==
    pc \in {"rs_graph", "rs_done"} =>
        LET inc == Included(json_response)
        IN  /\ DOMAIN urn_map = CarriedIds(inc)
            /\ \A id \in DOMAIN urn_map : urn_map[id] = inc[LastIndexOf(inc, id)]
            /\ inc = <<>> => urn_map = EmptyMap

\* two entities share "u1", the later one wins, the entity without an
\* identifier is not indexed
C8_Witness ==
    /\ pc = "rs_graph"
    /\ Included(json_response) =
           << Mk2("entityUrn", Str("u1"), "name", Str("A")),
              Dict("name" :> Str("D")),
              Mk2("entityUrn", Str("u1"), "name", Str("B")) >>
    /\ DOMAIN urn_map = {"u1"}
    /\ urn_map["u1"] = Mk2("entityUrn", Str("u1"), "name", Str("B"))

----------------------------------------------------------------------------
(* Selector runs: payloads with several root candidates and a pointer *)

MaxResults == 2     \* longest results list (data.*elements)

Mk3(k1, v1, k2, v2, k3, v3) == Dict((k1 :> v1) @@ (k2 :> v2) @@ (k3 :> v3))

\* two Profile entities with differing short identifiers, a Profile entity
\* without an identifier, a Profile entity without a short identifier, an
\* untagged entity, and an untagged entity whose position-groups reference
\* is a list (the shape parse_profile_response reads it as)
SelectPool ==
    { Mk3("$type", Str(ProfileType), "publicIdentifier", Str("a"), "entityUrn", Str("u1")),
      Mk3("$type", Str(ProfileType), "publicIdentifier", Str("b"), "entityUrn", Str("u2")),
      Mk2("$type", Str(ProfileType), "publicIdentifier", Str("b")),
      Mk2("$type", Str(ProfileType), "entityUrn", Str("u4")),
      Mk3("$type", Str("Other"), "publicIdentifier", Str("c"), "entityUrn", Str("u2")),
      Mk2("entityUrn", Str("u3"), "*profilePositionGroups", Lst(<<Str("u3")>>)) }

PointerIds == {Str("u2"), Str("u3"), Str("u9")}     \* "u9" is in no graph

\* the payload root: no "data", "data" without a results list, or a
\* results list of 0..MaxResults identifiers
SelectPayloads ==
    LET incs == SeqsBetween(SelectPool, 0, MaxIncluded)
        datas == {Dict(<<>>)} \cup
                 {Dict("*elements" :> Lst(q)) : q \in SeqsBetween(PointerIds, 0, MaxResults)}
    IN  {Dict("included" :> Lst(q)) : q \in incs}
            \cup {Mk2("included", Lst(q), "data", d) : q \in incs, d \in datas}

Targets == {None, Str("a"), Str("b"), Str("c")}

InitSelect ==
    /\ json_response \in SelectPayloads
    /\ public_identifier \in Targets
    /\ pc = "start"
    /\ urn_map = EmptyMap
    /\ profile_entity = None
    /\ result = None
    /\ arg_entity = None
    /\ arg_field = ""
    /\ url = ""
    /\ OthersIdle

SpecSelect == InitSelect /\ [][NextParse]_vars

----------------------------------------------------------------------------
(* Selector properties *)

IsTagged(e) == Get(e, "$type") = Str(ProfileType)

\* positions of the entities step 1 is meant to choose among: tagged and,
\* when a target is supplied, carrying the target's short identifier
Candidates(inc, target) ==
    {i \in 1..Len(inc) :
        /\ IsTagged(inc[i])
        /\ (target = None \/ Get(inc[i], "publicIdentifier") = target)}

Min(S) == CHOOSE x \in S : \A y \in S : x <= y

\* the selector has run
Selected == pc \in {"materialize", "returned", "raised"}

\* the call has ended
Ended == pc \in {"returned", "raised"}

\* the payload root's results list, empty when there is none
ResultsList ==
    LET d == GetOr(json_response, "data", EmptyDict)
    IN  IF "*elements" \in DOMAIN d.v THEN d.v["*elements"].v ELSE <<>>

\* C1: if some included entity has the Profile type tag and, when a target
\* is supplied, the target's publicIdentifier, the selected root is the
\* first such entity in payload order.
C1_FirstCandidateSelected ==
    LET inc == Included(json_response)
        cands == Candidates(inc, public_identifier)
    IN  (Selected /\ cands # {}) => profile_entity = inc[Min(cands)]

\* two Profile entities with differing short identifiers, the target names
\* the second, the second is the root
C1_Witness ==
    /\ pc = "materialize"
    /\ public_identifier = Str("b")
    /\ Len(Included(json_response)) = 2
    /\ Get(Included(json_response)[1], "publicIdentifier") = Str("a")
    /\ IsTagged(Included(json_response)[1])
    /\ IsTagged(Included(json_response)[2])
    /\ profile_entity = Included(json_response)[2]
    /\ Get(profile_entity, "publicIdentifier") = Str("b")

\* C2: whenever some included entity carries the Profile type tag, the
\* selected root is a Profile-tagged entity, also when the target equals
\* none of their short identifiers; the pointer is not followed then.
C2_TaggedRootWhenAnyTagged ==
    LET inc == Included(json_response)
    IN  (Selected /\ \E i \in 1..Len(inc) : IsTagged(inc[i])) =>
            /\ profile_entity # None
            /\ IsTagged(profile_entity)

\* C3: when step 1 selects nothing and the first identifier of the results
\* list is carried by an included entity, the call returns a profile
\* materialized from the entity the graph maps that identifier to.
C3_PointerFallbackSucceeds ==
    LET inc == Included(json_response)
    IN  ( /\ Ended
          /\ Candidates(inc, public_identifier) = {}
          /\ ResultsList # <<>>
          /\ ResultsList[1].v \in CarriedIds(inc) ) =>
            /\ pc = "returned"
            /\ profile_entity = inc[LastIndexOf(inc, ResultsList[1].v)]
            /\ result.v["urn"] = ResultsList[1]

\* C4: when step 1 selects nothing and the pointer resolves to nothing
\* (results list missing, empty, or naming an identifier not in the
\* graph), the call fails with the ValueError and returns no profile.
C4_RootEntityNotFound ==
    LET inc == Included(json_response)
    IN  ( /\ Selected
          /\ Candidates(inc, public_identifier) = {}
          /\ (ResultsList = <<>> \/ ResultsList[1].v \notin CarriedIds(inc)) ) =>
            /\ pc = "raised"
            /\ result = Raise("ValueError")
            /\ profile_entity = None

\* C5: the call either returns a Profile or fails with the ValueError of
\* the selector; no other error escapes.
C5_OnlyRootEntityNotFoundEscapes ==
    /\ pc = "returned" => IsDict(result)
    /\ pc = "raised" => result = Raise("ValueError")

----------------------------------------------------------------------------
(* Chain runs: one root with its position and education chains *)

MaxElems == 2       \* longest element list of a position container or of
                    \* the education collection

\* a dict with the key only when the value is given
Opt(key, v) == IF v = None THEN EmptyMap ELSE (key :> v)

\* a reference that is absent, resolves, or names no entity
RefChoices(id) == {None, Str(id), Str("zz")}

\* an element list that is absent or holds 0..MaxElems of the ids
ElemChoices(ids) == {None} \cup {Lst(q) : q \in SeqsBetween(ids, 0, MaxElems)}

\* element lists of the group collection: absent, empty, one group, both
\* groups in either order, and an unresolved group between the two
GroupElemChoices ==
    { None, Lst(<<>>), Lst(<<Str("g1")>>), Lst(<<Str("g1"), Str("g2")>>),
      Lst(<<Str("g2"), Str("g1")>>), Lst(<<Str("g2"), Str("gx"), Str("g1")>>) }

Titled(id, key, text) == Mk2("entityUrn", Str(id), key, Str(text))

\* hasUrn: the root carries an entityUrn; pg, ed: the root's references;
\* ge, g1c, c1e, ece: the element lists and the first group's reference
ChainPayload(hasUrn, pg, ed, ge, g1c, c1e, ece) ==
    Dict("included" :> Lst(<<
        Dict(("$type" :> Str(ProfileType)) @@ ("publicIdentifier" :> Str("a"))
             @@ (IF hasUrn THEN ("entityUrn" :> Str("r")) ELSE EmptyMap)
             @@ Opt("*profilePositionGroups", pg) @@ Opt("*profileEducations", ed)),
        Dict(("entityUrn" :> Str("gc")) @@ Opt("*elements", ge)),
        Dict(("entityUrn" :> Str("g1")) @@ Opt("*profilePositionInPositionGroup", g1c)),
        Mk2("entityUrn", Str("g2"), "*profilePositionInPositionGroup", Str("c2")),
        Dict(("entityUrn" :> Str("c1")) @@ Opt("*elements", c1e)),
        Mk2("entityUrn", Str("c2"), "*elements", Lst(<<Str("p3")>>)),
        Titled("p1", "title", "T1"),
        Titled("p2", "title", "T2"),
        Titled("p3", "title", "T3"),
        Dict(("entityUrn" :> Str("ec")) @@ Opt("*elements", ece)),
        Titled("e1", "schoolName", "S1"),
        Titled("e2", "schoolName", "S2") >>))

\* every combination for a root with an identifier, and the roots without
\* one over a fixed pair of chains
ChainPayloads ==
    { ChainPayload(TRUE, pg, ed, ge, g1c, c1e, ece) :
        pg \in RefChoices("gc"), ed \in RefChoices("ec"),
        ge \in GroupElemChoices, g1c \in RefChoices("c1"),
        c1e \in ElemChoices({Str("p1"), Str("p2"), Str("px")}),
        ece \in ElemChoices({Str("e1"), Str("e2")}) }
    \cup
    { ChainPayload(FALSE, pg, ed, Lst(<<Str("g1"), Str("g2")>>), Str("c1"),
                   Lst(<<Str("p1")>>), Lst(<<Str("e1")>>)) :
        pg \in RefChoices("gc"), ed \in RefChoices("ec") }

InitChain ==
    /\ json_response \in ChainPayloads
    /\ public_identifier = None
    /\ pc = "start"
    /\ urn_map = EmptyMap
    /\ profile_entity = None
    /\ result = None
    /\ arg_entity = None
    /\ arg_field = ""
    /\ url = ""
    /\ OthersIdle

SpecChain == InitChain /\ [][NextParse]_vars

----------------------------------------------------------------------------
(* Chain properties *)

\* the entity an identifier names in the graph, None when it names none
Deref(m, ref) == IF IsStr(ref) /\ ref.v \in DOMAIN m THEN m[ref.v] ELSE None

\* the field of an entity that may be None
Field(e, key) == IF IsDict(e) THEN Get(e, key) ELSE None

\* the element list of a collection, empty when there is none
ElementIds(e) == IF IsList(Field(e, "*elements")) THEN Field(e, "*elements").v ELSE <<>>

RECURSIVE Flatten(_)
Flatten(qq) == IF qq = <<>> THEN <<>> ELSE Head(qq) \o Flatten(Tail(qq))

\* root.*profilePositionGroups -> *elements: the group identifiers
GroupIds(m, root) == ElementIds(Deref(m, Field(root, "*profilePositionGroups")))

\* a group's *profilePositionInPositionGroup -> *elements
GroupPositionIds(m, g) ==
    ElementIds(Deref(m, Field(Deref(m, g), "*profilePositionInPositionGroup")))

\* the position identifiers the chain reaches, in payload-list order, one
\* per place in an element list
ReachablePositionIds(m, root) ==
    LET groups == GroupIds(m, root)
    IN  Flatten([i \in 1..Len(groups) |-> GroupPositionIds(m, groups[i])])

\* root.*profileEducations -> *elements
ReachableEducationIds(m, root) ==
    ElementIds(Deref(m, Field(root, "*profileEducations")))

\* the identifiers of q that resolve, in q's order
Resolving(m, q) == SelectSeq(q, LAMBDA r : IsStr(r) /\ r.v \in DOMAIN m)

ExpectedPositions(m, root) ==
    LET ids == Resolving(m, ReachablePositionIds(m, root))
    IN  [i \in 1..Len(ids) |-> _enrich_position(m[ids[i].v], m)]

ExpectedEducations(m, root) ==
    LET ids == Resolving(m, ReachableEducationIds(m, root))
    IN  [i \in 1..Len(ids) |-> _enrich_education(m[ids[i].v], m)]

\* C9: the positions of a materialized Profile are the enriched entities
\* of the position identifiers reachable through root.*profilePositionGroups
\* -> *elements -> *profilePositionInPositionGroup -> *elements that resolve,
\* one per place in the element lists, groups in the order of the group
\* collection's list and positions in the order of the container's list;
\* the educations follow the education collection's element list.
C9_ChainsInPayloadOrder ==
    pc = "returned" =>
        /\ result.v["positions"] = Lst(ExpectedPositions(urn_map, profile_entity))
        /\ result.v["educations"] = Lst(ExpectedEducations(urn_map, profile_entity))

UrnsOf(section) == [i \in 1..Len(section.v) |-> section.v[i].v["urn"]]

\* the second group is listed first and an unresolved group and an
\* unresolved position lie in between: p3 of g2, then p2 and p1 of g1
C9_Witness ==
    /\ pc = "returned"
    /\ GroupIds(urn_map, profile_entity) = <<Str("g2"), Str("gx"), Str("g1")>>
    /\ GroupPositionIds(urn_map, Str("g1")) = <<Str("p2"), Str("px")>>
    /\ UrnsOf(result.v["positions"]) = <<Str("p3"), Str("p2")>>
    /\ UrnsOf(result.v["educations"]) = <<Str("e2"), Str("e1")>>

\* a hop of the positions chain is missing at the level of the section
PositionsHopMissing(m, root) ==
    \/ Deref(m, Field(root, "*profilePositionGroups")) = None
    \/ ~IsList(Field(Deref(m, Field(root, "*profilePositionGroups")), "*elements"))

EducationsHopMissing(m, root) ==
    \/ Deref(m, Field(root, "*profileEducations")) = None
    \/ ~IsList(Field(Deref(m, Field(root, "*profileEducations")), "*elements"))

\* C10: when a hop of a section's chain is absent or resolves to no value,
\* materialization still succeeds, that section is empty, and the other
\* section and the other groups hold what their own chains reach.
C10_MissingHopGivesEmptySection ==
    LET posMissing == PositionsHopMissing(urn_map, profile_entity)
        eduMissing == EducationsHopMissing(urn_map, profile_entity)
    IN  (Ended /\ profile_entity # None /\ (posMissing \/ eduMissing)) =>
            /\ pc = "returned"
            /\ posMissing => result.v["positions"] = Lst(<<>>)
            /\ eduMissing => result.v["educations"] = Lst(<<>>)
            /\ result.v["positions"] = Lst(ExpectedPositions(urn_map, profile_entity))
            /\ result.v["educations"] = Lst(ExpectedEducations(urn_map, profile_entity))

----------------------------------------------------------------------------
(* Enrichment runs: one position and one education with varying fields *)

\* the root of the enrichment runs and the collections leading to the
\* position "p1" and the education "e1"
EnrichFrame ==
    << Dict(("$type" :> Str(ProfileType)) @@ ("entityUrn" :> Str("r"))
            @@ ("publicIdentifier" :> Str("a"))
            @@ ("*profilePositionGroups" :> Str("gc"))
            @@ ("*profileEducations" :> Str("ec"))),
       Mk2("entityUrn", Str("gc"), "*elements", Lst(<<Str("g1")>>)),
       Mk2("entityUrn", Str("g1"), "*profilePositionInPositionGroup", Str("c1")),
       Mk2("entityUrn", Str("c1"), "*elements", Lst(<<Str("p1")>>)),
       Mk2("entityUrn", Str("ec"), "*elements", Lst(<<Str("e1")>>)) >>

\* a key's value: Absent leaves the key out, None puts a null
Absent == [k |-> "absent"]
Key(key, v) == IF v = Absent THEN EmptyMap ELSE (key :> v)

\* position entities: the company reference is absent, null, resolving,
\* unresolved or a list; the literals and the title absent, null or given
PositionEntities ==
    { Dict(("entityUrn" :> Str("p1")) @@ Key("*company", c) @@ Key("companyName", n)
           @@ Key("companyUrn", u) @@ Key("title", t)) :
        c \in {Absent, None, Str("co"), Str("zz"), Lst(<<Str("co")>>), Lst(<<Str("zz")>>)},
        n \in {Absent, None, Str("Acme")},
        u \in {Absent, Str("urn:lit")},
        t \in {Absent, None, Str(""), Str("Eng")} }

\* the company and the school "co" and "sc" name: with a name, without
\* one, or with a null name
NamedEntities(id, name) ==
    { Dict(("entityUrn" :> Str(id)) @@ Key("name", n)) : n \in {Absent, None, Str(name)} }

EducationEntities ==
    { Dict(("entityUrn" :> Str("e1")) @@ Key("*school", c) @@ Key("schoolName", n)
           @@ Key("degreeName", d) @@ Key("fieldOfStudy", f) @@ Key("dateRange", r)) :
        c \in {Absent, None, Str("sc"), Str("zz"), Lst(<<Str("sc")>>)},
        n \in {Absent, None, Str("MIT")},
        d \in {Absent, Str("BSc")},
        f \in {Absent, Str("Math")},
        r \in {Absent, None, DateRangeLit} }

DefaultPosition == Mk2("entityUrn", Str("p1"), "title", Str("Eng"))
DefaultEducation == Mk2("entityUrn", Str("e1"), "schoolName", Str("MIT"))

\* every position with a fixed education, and every education with a
\* fixed position
EnrichPayloads ==
    { Dict("included" :> Lst(EnrichFrame \o <<p, co, DefaultEducation>>)) :
        p \in PositionEntities, co \in NamedEntities("co", "Acme Inc") }
    \cup
    { Dict("included" :> Lst(EnrichFrame \o <<DefaultPosition, e, sc>>)) :
        e \in EducationEntities, sc \in NamedEntities("sc", "MIT U") }

InitEnrich ==
    /\ json_response \in EnrichPayloads
    /\ public_identifier \in {None, Str("a")}
    /\ pc = "start"
    /\ urn_map = EmptyMap
    /\ profile_entity = None
    /\ result = None
    /\ arg_entity = None
    /\ arg_field = ""
    /\ url = ""
    /\ OthersIdle

SpecEnrich == InitEnrich /\ [][NextParse]_vars

----------------------------------------------------------------------------
(* Enrichment properties *)

\* the position entity and the Position made of it, in a returned profile
SourcePosition == urn_map["p1"]
OutPosition == result.v["positions"].v[1].v

SourceEducation == urn_map["e1"]
OutEducation == result.v["educations"].v[1].v

C12_RequiredScalarsPresent ==
    pc = "returned" =>
        /\ \A i \in 1..Len(result.v["positions"].v) :
               /\ IsStr(result.v["positions"].v[i].v["title"])
               /\ IsStr(result.v["positions"].v[i].v["company_name"])
        /\ \A i \in 1..Len(result.v["educations"].v) :
               IsStr(result.v["educations"].v[i].v["school_name"])

----------------------------------------------------------------------------
(* Connection runs: one root, one relationship entity, varying unions *)

DistanceTokens ==
    {"DISTANCE_1", "DISTANCE_2", "DISTANCE_3", "OUT_OF_NETWORK", "DISTANCE_9"}

\* union containers: the two direct-connection variants, noConnection
\* with each token, without one and null, both variants at once, an
\* unrelated key, an empty container, null, and the flat "distance" form
Unions ==
    { Dict("connectedMember" :> Str("urn:m")), Dict("connected" :> EmptyDict),
      Dict("noConnection" :> EmptyDict), Dict("noConnection" :> None),
      Dict(("connected" :> EmptyDict)
           @@ ("noConnection" :> Dict("memberDistance" :> Str("DISTANCE_2")))),
      Dict("other" :> Str("x")), EmptyDict, None }
    \cup { Dict("noConnection" :> Dict("memberDistance" :> Str(t))) : t \in DistanceTokens }
    \cup { Dict("distance" :> Str(t)) : t \in DistanceTokens }

ConnRoots ==
    { Dict(("$type" :> Str(ProfileType)) @@ ("entityUrn" :> Str("urn:li:fsd_profile:r"))
           @@ ("firstName" :> Str("Ann")) @@ ("publicIdentifier" :> Str("a"))
           @@ Key("*memberRelationship", mr)) :
        mr \in {Absent, None, Str("rel"), Str("zz")} }

RelationshipEntities ==
    { Dict(("entityUrn" :> Str("rel")) @@ Key("memberRelationshipUnion", u1)
           @@ Key("memberRelationshipData", u2)) :
        u1 \in Unions \cup {Absent}, u2 \in Unions \cup {Absent} }

ConnPayloads ==
    { Dict("included" :> Lst(<<root, rel>>)) :
        root \in ConnRoots, rel \in RelationshipEntities }

InitConn ==
    /\ json_response \in ConnPayloads
    /\ public_identifier = Str("a")
    /\ pc = "start"
    /\ urn_map = EmptyMap
    /\ profile_entity = None
    /\ result = None
    /\ arg_entity = None
    /\ arg_field = ""
    /\ url = ""
    /\ OthersIdle

SpecConn == InitConn /\ [][NextBoth]_vars

----------------------------------------------------------------------------
(* Connection properties *)

\* the relationship entity the root refers to, None when it refers to none
Relationship == Deref(urn_map, Get(json_response.v["included"].v[1], "*memberRelationship"))

\* the union container: the first non-absent of the two key names
UnionOf(rel) ==
    IF Truthy(Field(rel, "memberRelationshipUnion"))
    THEN Field(rel, "memberRelationshipUnion")
    ELSE Field(rel, "memberRelationshipData")

HoldsDirect(union) ==
    IsDict(union) /\ ({"connectedMember", "connected"} \cap DOMAIN union.v # {})

HoldsNoConnection(union) ==
    IsDict(union) /\ ~HoldsDirect(union) /\ "noConnection" \in DOMAIN union.v

\* C14: when the relationship reference is absent or unresolved distance
\* and degree are absent; a direct-connection variant gives
\* (DISTANCE_1, 1); a noConnection variant gives its memberDistance
\* token and the table's degree for it; any other union gives absent.
C14_ConnectionCases ==
    pc = "returned" =>
        LET union == UnionOf(Relationship)
            distance == result.v["connection_distance"]
            degree == result.v["connection_degree"]
        IN  IF Relationship = None
            THEN distance = None /\ degree = None
            ELSE IF HoldsDirect(union)
            THEN distance = Str("DISTANCE_1") /\ degree = Num(1)
            ELSE IF HoldsNoConnection(union)
            THEN /\ distance = Field(union.v["noConnection"], "memberDistance")
                 /\ degree = DegreeOf(distance)
            ELSE distance = None /\ degree = None

\* the union is found under the second key name, holds the newer
\* direct-connection key, and the call returns (DISTANCE_1, 1)
C14_Witness ==
    /\ pc = "returned"
    /\ Relationship # None
    /\ ~Truthy(Field(Relationship, "memberRelationshipUnion"))
    /\ IsDict(UnionOf(Relationship))
    /\ "connected" \in DOMAIN UnionOf(Relationship).v
    /\ result.v["connection_distance"] = Str("DISTANCE_1")
    /\ result.v["connection_degree"] = Num(1)

\* a profile was produced by one of the two parsers
Produced == pc \in {"returned", "p_returned"} /\ result # None

\* C15: in every profile either parser produces, connection_degree is 1,
\* 2, 3 for DISTANCE_1, DISTANCE_2, DISTANCE_3 and absent for
\* OUT_OF_NETWORK, an unknown token and an absent distance.
C15_DegreeIsFunctionOfDistance ==
    Produced =>
        LET distance == result.v["connection_distance"]
            degree == result.v["connection_degree"]
        IN  /\ degree \in {Num(1), Num(2), Num(3), None}
            /\ degree = (CASE distance = Str("DISTANCE_1") -> Num(1)
                           [] distance = Str("DISTANCE_2") -> Num(2)
                           [] distance = Str("DISTANCE_3") -> Num(3)
                           [] OTHER -> None)

\* main.py's parser produced a profile out of the network: the token is
\* kept and the degree is absent
C15_Witness ==
    /\ pc = "returned"
    /\ result.v["connection_distance"] = Str("OUT_OF_NETWORK")
    /\ result.v["connection_degree"] = None

\* one of the two recognized variants: a direct connection, or a
\* noConnection carrying a distance token
Recognized(union) ==
    \/ HoldsDirect(union)
    \/ /\ HoldsNoConnection(union)
       /\ IsDict(union.v["noConnection"])
       /\ "memberDistance" \in DOMAIN union.v["noConnection"].v

\* C16: for every shape of the relationship entity and of its union,
\* main.py's _extract_connection_info returns without raising, and gives
\* absent distance and degree for every shape that is not one of the two
\* recognized variants.
C16_MalformedUnionDegrades ==
    /\ pc # "raised"
    /\ (pc = "returned" /\ ~Recognized(UnionOf(Relationship)))
           => (result.v["connection_distance"] = None
                  /\ result.v["connection_degree"] = None)

----------------------------------------------------------------------------
(* Canonicalizer runs: url_to_public_id on strings built from components *)

MaxSegs == 3        \* most path segments of an input

Schemes == {"", "https://", "http://"}

\* the text before the path: target hosts, foreign hosts, one of which
\* ends in the target's name, a host with an unbalanced bracket, a bare
\* identifier, and nothing
Hosts ==
    {"", "jdoe", "www.linkedin.com", "linkedin.com", "other.tld", "notlinkedin.com",
     "[linkedin.com"}

\* path segments; the empty one gives a doubled slash
Segments == {"in", "jdoe", "pub", ""}

Suffixes == {"", "/", "?a=b", "/?ref=linkedin.com", "#c", ";p"}

\* "/" + "/".join(q), nothing for no segments
RECURSIVE JoinPath(_)
JoinPath(q) == IF q = <<>> THEN "" ELSE "/" \o Head(q) \o JoinPath(Tail(q))

Urls ==
    { lead \o scheme \o host \o JoinPath(q) \o suffix :
        lead \in {"", " "}, scheme \in Schemes, host \in Hosts,
        q \in SeqsBetween(Segments, 0, MaxSegs), suffix \in Suffixes }

InitUrl ==
    /\ url \in Urls
    /\ pc = "u_start"
    /\ json_response = EmptyDict
    /\ public_identifier = None
    /\ urn_map = EmptyMap
    /\ profile_entity = None
    /\ result = None
    /\ arg_entity = None
    /\ arg_field = ""
    /\ OthersIdle

SpecUrl == InitUrl /\ [][NextUrl]_vars

----------------------------------------------------------------------------
(* Canonicalizer properties *)

\* the host an input names: the text after leading blanks and an http(s)
\* scheme, up to the first "/", "?" or "#"
HostOf(u) ==
    LET s == LStrip(u)
        t == IF Startswith(s, "https://") THEN SubSeq(s, 9, Len(s))
             ELSE IF Startswith(s, "http://") THEN SubSeq(s, 8, Len(s))
             ELSE s
    IN  Before(Before(Before(t, "/"), "?"), "#")

\* the input belongs to the target domain: its host is linkedin.com or a
\* subdomain of it
OnTargetDomain(u) ==
    \/ HostOf(u) = "linkedin.com"
    \/ /\ Len(HostOf(u)) > Len(".linkedin.com")
       /\ SubSeq(HostOf(u), Len(HostOf(u)) - Len(".linkedin.com") + 1, Len(HostOf(u)))
              = ".linkedin.com"

\* C17: on a target-domain URL the result is the path segment right after
\* the first segment equal to 'in'; when 'in' is the last segment or no
\* segment is 'in', it is the whole path without its leading and trailing
\* slashes.
C17_SegmentAfterMarker ==
    (pc = "u_returned" /\ OnTargetDomain(url)) =>
        LET path == UrlPath(url).v
            parts == Parts(path)
            Markers == {i \in 1..Len(parts) : parts[i] = "in"}
        IN  IF Markers # {} /\ (\E i \in Markers : \A j \in Markers : i <= j /\ i < Len(parts))
            THEN \E i \in Markers :
                    /\ \A j \in Markers : i <= j
                    /\ result = Str(parts[i + 1])
            ELSE /\ result = Str(StripSlashes(path))
                 /\ Len(result.v) > 0 =>
                        /\ SubSeq(result.v, 1, 1) # "/"
                        /\ SubSeq(result.v, Len(result.v), Len(result.v)) # "/"

\* a profile URL with a second marker further on and a query: the
\* segment after the first marker is returned
C17_Witness ==
    /\ pc = "u_returned"
    /\ url = "https://www.linkedin.com/in/jdoe/in?a=b"
    /\ result = Str("jdoe")

\* C18: for every input the call returns a string without raising, and an
\* input that does not belong to the target domain is returned unchanged.
C18_TotalAndForeignUnchanged ==
    /\ pc # "u_raised"
    /\ (pc = "u_returned" /\ ~OnTargetDomain(url)) => result = Str(url)

----------------------------------------------------------------------------
(* Identity runs: one root whose identifier and names vary *)

ProfileUrn == "urn:li:fsd_profile:r"

\* roots with the short identifier and each name absent, null, empty or
\* given, some with blanks at the ends; tagged, or reached by the pointer
IdentityRoots ==
    { Dict(Key("$type", ty) @@ ("entityUrn" :> Str(ProfileUrn))
           @@ Key("publicIdentifier", pid) @@ Key("firstName", fn)
           @@ Key("lastName", ln)) :
        ty \in {Absent, Str(ProfileType)},
        pid \in {Absent, None, Str(""), Str("jdoe")},
        fn \in {Absent, None, Str(""), Str("Ann"), Str(" Ann"), Str("Mary Jo")},
        ln \in {Absent, None, Str(""), Str("Lee"), Str("Lee ")} }

IdentityPayloads ==
    { Dict(("included" :> Lst(<<root>>))
           @@ ("data" :> Dict("*elements" :> Lst(<<Str(ProfileUrn)>>)))) :
        root \in IdentityRoots }

InitIdentity ==
    /\ json_response \in IdentityPayloads
    /\ public_identifier = None
    /\ pc = "start"
    /\ urn_map = EmptyMap
    /\ profile_entity = None
    /\ result = None
    /\ arg_entity = None
    /\ arg_field = ""
    /\ url = ""
    /\ OthersIdle

SpecIdentity == InitIdentity /\ [][NextBoth]_vars

----------------------------------------------------------------------------
(* Identity properties *)

\* the text of a value that may be absent: nothing for an absent one
TextOf(x) == IF IsStr(x) THEN x.v ELSE ""

\* C19: the Profile's url is 'https://www.linkedin.com/in/', the selected
\* root's short identifier and '/'; a root without a short identifier
\* gives 'https://www.linkedin.com/in//', and a profile is still produced.
C19_CanonicalUrl ==
    /\ pc \notin {"raised", "p_raised"}
    /\ Produced =>
           result.v["url"] =
               Str("https://www.linkedin.com/in/"
                      \o TextOf(Get(profile_entity, "publicIdentifier")) \o "/")

\* C20: first_name and last_name are the root's values, an absent one
\* replaced by the empty string; full_name is the two joined by one space
\* and trimmed: no blank at either end, the single present name when the
\* other is absent, empty when both are absent.
C20_NamesDefaultAndTrim ==
    pc = "returned" =>
        LET first == TextOf(Get(profile_entity, "firstName"))
            last == TextOf(Get(profile_entity, "lastName"))
            full == result.v["full_name"].v
        IN  /\ result.v["first_name"] = Str(first)
            /\ result.v["last_name"] = Str(last)
            /\ full = Strip(first \o " " \o last)
            /\ (first = "" /\ last = "") => full = ""
            /\ (first # "" /\ last = "") => full = Strip(first)
            /\ (first = "" /\ last # "") => full = Strip(last)
            /\ full = Strip(full)

----------------------------------------------------------------------------
(* Repeated runs: one caller parsing payload after payload *)

MaxCalls == 3       \* most calls a caller makes

\* payloads that return by the scan and by the pointer, that find no root,
\* and that raise; "u2" names different entities in different payloads
RepeatPayloads ==
    { Dict("included" :> Lst(<<Mk3("$type", Str(ProfileType), "publicIdentifier", Str("a"),
                                   "entityUrn", Str("u1"))>>)),
      Mk2("included", Lst(<<Mk2("publicIdentifier", Str("b"), "entityUrn", Str("u2"))>>),
          "data", Dict("*elements" :> Lst(<<Str("u2")>>))),
      Mk2("included", Lst(<<Mk3("publicIdentifier", Str("c"), "entityUrn", Str("u2"),
                                "*geo", Str("u1"))>>),
          "data", Dict("*elements" :> Lst(<<Str("u2")>>))),
      Mk2("included", Lst(<<>>), "data", Dict("*elements" :> Lst(<<Str("u2")>>))),
      Dict("included" :> Lst(<<Mk2("$type", Str(ProfileType), "publicIdentifier", Str("a"))>>)) }

RepeatTargets == {None, Str("a")}

InitRepeat ==
    /\ json_response \in RepeatPayloads
    /\ public_identifier \in RepeatTargets
    /\ pc = "start"
    /\ urn_map = EmptyMap
    /\ profile_entity = None
    /\ result = None
    /\ arg_entity = None
    /\ arg_field = ""
    /\ url = ""
    /\ calls = <<>>
    /\ OutsideRepeatIdle

\* the caller notes the outcome and calls the parser again.  The names
\* urn_map, profile_entity and result of the call that ended still hold
\* their objects: nothing resets them but the new call's own assignments.
CallAgain ==
    /\ pc \in {"returned", "raised"}
    /\ Len(calls) < MaxCalls - 1
    /\ calls' = Append(calls, [payload |-> json_response, target |-> public_identifier,
                               outcome |-> result])
    /\ json_response' \in RepeatPayloads
    /\ public_identifier' \in RepeatTargets
    /\ pc' = "start"
    /\ UNCHANGED <<urn_map, profile_entity, result, arg_entity, arg_field, url,
                   outsideRepeat>>

NextRepeat == NextParse \/ CallAgain

SpecRepeat == InitRepeat /\ [][NextRepeat]_vars

----------------------------------------------------------------------------
(* Repeated-run properties *)

\* the calls made so far, the one that has just ended included
Completed ==
    IF pc \in {"returned", "raised"}
    THEN Append(calls, [payload |-> json_response, target |-> public_identifier,
                        outcome |-> result])
    ELSE calls

\* C21: two runs of parse_linkedin_voyager_response on the same payload
\* and target give the same outcome (the same Profile or the same error)
\* whatever ran in between, and a run leaves its payload as it was.
C21_MaterializationIsPure ==
    /\ [](\A i, j \in 1..Len(Completed) :
            (Completed[i].payload = Completed[j].payload
                /\ Completed[i].target = Completed[j].target)
            => Completed[i].outcome = Completed[j].outcome)
    /\ [][(pc \in {"start", "select", "materialize"})
            => UNCHANGED <<json_response, public_identifier>>]_vars

\* the same payload was parsed before and after a payload in which the
\* same identifier names another entity, with the same Profile both times
C21_Witness ==
    /\ Len(Completed) = 3
    /\ Completed[1].payload = Completed[3].payload
    /\ Completed[1].target = Completed[3].target
    /\ Completed[2].payload # Completed[1].payload
    /\ IsDict(Completed[1].outcome)
    /\ IsDict(Completed[2].outcome)
    /\ Completed[1].outcome # Completed[2].outcome
    /\ Completed[3].outcome = Completed[1].outcome

----------------------------------------------------------------------------
(* Searches: one ProfileSearcher.search call over what the engine answers *)

MaxHits == 2        \* most results in one answer of the engine
MaxQueries == 2     \* most queries of one search call

\* one result of the engine
Hit(href, title, body) ==
    Dict(Key("href", href) @@ Key("title", title) @@ Key("body", body))

\* results of the engine: a profile under two titles, the same profile with
\* a query string, a page that is no profile, one without href and one
\* whose href is null
RawHits ==
    { Hit(Str("https://linkedin.com/in/a"), Str("T1"), Str("D1")),
      Hit(Str("https://linkedin.com/in/a"), Str("T2"), None),
      Hit(Str("https://linkedin.com/in/a?trk=x"), Str("T1"), Str("D1")),
      Hit(Str("https://example.com/a"), Str("T1"), Absent),
      Hit(Absent, Str("T1"), Str("D1")),
      Hit(None, Str("T1"), Str("D1")) }

\* what DDGS().text does for one query: a list of results, or it raises
Answers ==
    {Raise("Exception")}
        \cup {Lst(q) : q \in UNION {[1..n -> RawHits] : n \in 0..MaxHits}}

InitSearch ==
    /\ queries \in 0..MaxQueries
    /\ save_to_db \in BOOLEAN
    /\ s_pc = "s_queries"
    /\ all_results = <<>>
    /\ unique_results = <<>>
    /\ DbIdle
    /\ OutsideSearchDbIdle

\* one round of the loops over targets and queries: the next query is run,
\* the engine answers, and the results are added to all_results
SearchRunQuery ==
    /\ s_pc = "s_queries"
    /\ queries > 0
    /\ \E answer \in Answers : all_results' = all_results \o _search_ddgs(answer)
    /\ queries' = queries - 1
    /\ UNCHANGED <<save_to_db, s_pc, unique_results, dbVars, outsideSearchDb>>

\* after the last query: the deduplication, and the save through a new
\* ProfileDatabase when asked for and there is something to save
SearchFinish ==
    /\ s_pc = "s_queries"
    /\ queries = 0
    /\ unique_results' = Deduplicate(all_results, {})
    /\ s_pc' = "s_returned"
    /\ IF save_to_db /\ unique_results' # <<>>
       THEN LET saved == save_results(table, 0, unique_results')
            IN  /\ table' = saved.table
                /\ total_changes' = saved.total_changes
                /\ count' = Num(saved.count)
                /\ db_results' = unique_results'
                /\ rows_before' = Len(table)
       ELSE UNCHANGED dbVars
    /\ UNCHANGED <<queries, save_to_db, all_results, outsideSearchDb>>

NextSearch == SearchRunQuery \/ SearchFinish

SpecSearch == InitSearch /\ [][NextSearch]_vars

\* the first place of an href in a list of results, 0 when it has none
FirstPlace(results, href) ==
    IF \E i \in 1..Len(results) : results[i].href = href
    THEN CHOOSE i \in 1..Len(results) :
             /\ results[i].href = href
             /\ \A j \in 1..(i - 1) : results[j].href # href
    ELSE 0

\* C22: the list a search call returns holds no href twice, holds every
\* href the queries produced, each with the title and description of its
\* first occurrence, and in the order of the first occurrences
C22_UniqueFirstSeen ==
    s_pc = "s_returned" =>
        /\ \A i, j \in 1..Len(unique_results) :
               unique_results[i].href = unique_results[j].href => i = j
        /\ \A k \in 1..Len(all_results) :
               \E i \in 1..Len(unique_results) :
                   unique_results[i].href = all_results[k].href
        /\ \A i \in 1..Len(unique_results) :
               /\ FirstPlace(all_results, unique_results[i].href) > 0
               /\ unique_results[i] =
                      all_results[FirstPlace(all_results, unique_results[i].href)]
        /\ \A i, j \in 1..Len(unique_results) :
               i < j => FirstPlace(all_results, unique_results[i].href)
                          < FirstPlace(all_results, unique_results[j].href)

\* a search whose queries produced an href twice with different titles,
\* and another href between the two
C22_Witness ==
    /\ s_pc = "s_returned"
    /\ Len(all_results) = 3
    /\ all_results[1].href = all_results[3].href
    /\ all_results[1].title # all_results[3].title
    /\ all_results[2].href # all_results[1].href
    /\ Len(unique_results) = 2

\* the href without its query string
WithoutQuery(href) ==
    IF FindFrom(href, "?", 1) = 0 THEN href
    ELSE SubSeq(href, 1, FindFrom(href, "?", 1) - 1)

\* C23: the returned list holds no two results whose hrefs are the same
\* once the query string is taken away, and no href with a query string
C23_QueryStringStripped ==
    s_pc = "s_returned" =>
        /\ \A i, j \in 1..Len(unique_results) :
               WithoutQuery(unique_results[i].href) = WithoutQuery(unique_results[j].href)
                   => i = j
        /\ \A i \in 1..Len(unique_results) :
               unique_results[i].href = WithoutQuery(unique_results[i].href)

----------------------------------------------------------------------------
(* Batches: run and extract_batch over items of which some fail *)

MaxItems == 3       \* most items of one batch

BatchesOf(fates) == UNION {[1..n -> fates] : n \in 0..MaxItems}

InitBatch ==
    /\ \/ b_pc = "b_loop" /\ batch \in BatchesOf(GetProfileFates)
       \/ b_pc = "b_gather" /\ batch \in BatchesOf(ExtractFates)
    /\ outcomes = [i \in 1..Len(batch) |-> None]
    /\ b_next = 1
    /\ OutsideBatchIdle

SpecBatch == InitBatch /\ [][NextBatch]_vars

\* the loop of run continues while the user enters targets, and the event
\* loop runs every task that is ready
SpecBatchFair == SpecBatch /\ WF_vars(NextBatch)

\* the item failed: its materialization gave no profile or raised
Failing(i) == batch[i] \notin {"profile", "parsed"}

AllProcessed == \A i \in 1..Len(batch) : outcomes[i] # None

\* what the caller makes of item i taken alone
OutcomeAlone(i) ==
    IF batch[i] \in ExtractFates THEN ExtractResponse(batch[i]) ELSE RunOutcome(batch[i])

\* C24: a batch ends only when every item was processed, every item is
\* processed in the end, and an item's outcome is the one it has alone:
\* a failing item changes no other item's outcome and does not end the batch
C24_BatchContinuesPastFailure ==
    /\ [](b_pc = "b_done" => AllProcessed)
    /\ [](\A i \in 1..Len(batch) : outcomes[i] # None => outcomes[i] = OutcomeAlone(i))
    /\ [][(b_pc' = "b_done" /\ b_pc # "b_done") => UNCHANGED outcomes]_vars
    /\ <>(b_pc = "b_done" /\ AllProcessed)

\* a finished batch whose first item raised, whose second found no profile
\* or failed to crawl, and whose third succeeded
C24_Witness ==
    /\ b_pc = "b_done"
    /\ Len(batch) = 3
    /\ batch[1] \in {"KeyError", "raises"}
    /\ batch[2] \in {"none", "crawl_failed"}
    /\ batch[3] \in {"profile", "parsed"}
    /\ Failing(1) /\ Failing(2)
    /\ outcomes[3] \in {Str("saved"), ExtractResponse("parsed")}

----------------------------------------------------------------------------
(* Saves: sequences of save_results calls on one database file *)

MaxSaved == 2       \* most results handed to one save_results call

Found(href, title) == [href |-> href, title |-> Str(title), description |-> None]

\* results handed to save_results: profiles, one of them under two titles,
\* a page that is no profile, and a result with an empty href
FoundResults ==
    { Found("https://linkedin.com/in/a", "T1"),
      Found("https://linkedin.com/in/a", "T2"),
      Found("https://linkedin.com/in/b", "T1"),
      Found("https://example.com/a", "T1"),
      Found("", "T1") }

ResultLists == UNION {[1..n -> FoundResults] : n \in 0..MaxSaved}

\* a new database file and a ProfileDatabase opened on it
InitDb ==
    /\ table = <<>>
    /\ total_changes = 0
    /\ count = None
    /\ db_results = <<>>
    /\ rows_before = 0
    /\ OutsideDbIdle

\* ProfileDatabase(): a new connection to the same file
Connect ==
    /\ total_changes' = 0
    /\ UNCHANGED <<table, count, db_results, rows_before, outsideDb>>

\* scrapers/search.py: a save_results call on the open connection
SaveResults ==
    \E results \in ResultLists :
        LET saved == save_results(table, total_changes, results)
        IN  /\ table' = saved.table
            /\ total_changes' = saved.total_changes
            /\ count' = Num(saved.count)
            /\ db_results' = results
            /\ rows_before' = Len(table)
            /\ UNCHANGED outsideDb

\* profiles.py: a save_results call on the open connection
SaveResultsCli ==
    \E results \in ResultLists :
        LET saved == save_results_cli(table, total_changes, results)
        IN  /\ table' = saved.table
            /\ total_changes' = saved.total_changes
            /\ count' = Num(saved.count)
            /\ db_results' = results
            /\ rows_before' = Len(table)
            /\ UNCHANGED outsideDb

NextDb == Connect \/ SaveResults \/ SaveResultsCli

SpecDb == InitDb /\ [][NextDb]_vars

\* C25: the number a save_results call returns or reports is the number of
\* rows the call added to the table
C25_CountIsRowsAdded ==
    count # None => count.v = Len(table) - rows_before

\* C30: the table holds no href twice, every stored href contains
\* 'linkedin.com/in/', and no step removes or changes a stored row
C30_TableKeepsFirstRows ==
    /\ [](\A i, j \in 1..Len(table) : table[i].href = table[j].href => i = j)
    /\ [](\A i \in 1..Len(table) : Contains(table[i].href, ProfilePath))
    /\ [][/\ Len(table') >= Len(table)
          /\ \A i \in 1..Len(table) : table'[i] = table[i]]_vars

\* the last call saved a stored href under another title, after a page
\* that is no profile, and the row has the title first written
C30_Witness ==
    /\ Len(db_results) = 2
    /\ ~Contains(db_results[1].href, ProfilePath)
    /\ rows_before = 2
    /\ Len(table) = 2
    /\ db_results[2].href = table[1].href
    /\ db_results[2].title = Str("T2")
    /\ table[1].title = Str("T1")

----------------------------------------------------------------------------
(* api/routes.py: scrape_profile and set_scraper_session *)

MaxRequests == 3    \* most requests a client sends

\* the scrapers main can hand to set_scraper_session
Scrapers == {Str("scraper1"), Str("scraper2")}

\* the profiles a scraper returns
ScrapedProfiles ==
    { Dict("public_identifier" :> Str("a")),
      Dict("public_identifier" :> Str("b")) }

\* what _scraper_session.get_profile(request.profile_url) does: a profile,
\* no profile, or an exception
GetProfileOutcomes ==
    ScrapedProfiles \cup {None, Raise("ValueError"), Raise("AuthenticationError")}

\* get_profile was not called
NotCalled == [k |-> "not_called"]

\* raise HTTPException(status_code, detail)
HTTPException(status_code, detail) ==
    [status |-> status_code, detail |-> detail, profile |-> None]

\* str(e) of what the except clause caught
Detail(e) ==
    IF e = "HTTPException"
    THEN "404: Could not fetch profile. It may be private or blocked."
    ELSE e

\* the try block of scrape_profile: the HTTPException raised for a missing
\* profile is an Exception and is caught by the except clause like one
\* raised by get_profile
Fetch(fetched) ==
    IF IsRaise(fetched) THEN HTTPException(500, Detail(fetched.v))
    ELSE IF ~Truthy(fetched) THEN HTTPException(500, Detail("HTTPException"))
    ELSE [status |-> 200, detail |-> "", profile |-> fetched]

\* scrape_profile(request)
scrape_profile(session, fetched) ==
    IF ~Truthy(session)
    THEN HTTPException(503, "No active scraping session. Start the service with --with-browser flag.")
    ELSE Fetch(fetched)

\* a request to POST /api/scrape/profile is answered; get_profile is called
\* only when a session is set
ScrapeProfile ==
    /\ Len(requests) < MaxRequests
    /\ \E fetched \in IF Truthy(_scraper_session) THEN GetProfileOutcomes ELSE {NotCalled} :
           requests' = Append(requests, [session |-> _scraper_session,
                                         fetched |-> fetched,
                                         response |-> scrape_profile(_scraper_session, fetched)])
    /\ UNCHANGED <<_scraper_session, outsideRoute>>

\* set_scraper_session(scraper)
SetScraperSession ==
    /\ \E scraper \in Scrapers \cup {None} : _scraper_session' = scraper
    /\ UNCHANGED <<requests, outsideRoute>>

NextRoute == ScrapeProfile \/ SetScraperSession

InitRoute ==
    /\ _scraper_session = None
    /\ requests = <<>>
    /\ OutsideRouteIdle

SpecRoute == InitRoute /\ [][NextRoute]_vars

\* C26: every answered request has the response its session and fetch
\* call for: 503 without a fetch when no session is set, 404 when the
\* fetch gave no profile, 500 when it raised, success with the fetched
\* profile otherwise and only then; a request never changes the session
C26_ResponseBySessionAndFetch ==
    /\ [](\A i \in 1..Len(requests) :
            LET q == requests[i]
            IN  /\ q.session = None =>
                       q.response.status = 503 /\ q.fetched = NotCalled
                /\ (q.session # None /\ q.fetched = None) => q.response.status = 404
                /\ (q.session # None /\ IsRaise(q.fetched)) => q.response.status = 500
                /\ q.response.status = 200 <=> q.fetched \in ScrapedProfiles
                /\ q.response.status = 200 => q.response.profile = q.fetched)
    /\ [][(requests' # requests) => UNCHANGED _scraper_session]_vars

----------------------------------------------------------------------------
(* Both parsers on one payload *)

\* a root that both selectors choose
AgreeRoot(pg, ed) ==
    Dict(("$type" :> Str(ProfileType)) @@ ("publicIdentifier" :> Str("a"))
         @@ ("entityUrn" :> Str("urn:li:fsd_profile:r")) @@ ("firstName" :> Str("Ann"))
         @@ Opt("*profilePositionGroups", pg) @@ Opt("*profileEducations", ed))

\* pg, ed: the root's references; ge: the element list of the group
\* collection; g1c: the reference of the group
AgreePayload(pg, ed, ge, g1c) ==
    Dict("included" :> Lst(<<
        AgreeRoot(pg, ed),
        Dict(("entityUrn" :> Str("gc")) @@ Opt("*elements", ge)),
        Mk2("entityUrn", Str("g1"), "*profilePositionInPositionGroup", g1c),
        Mk2("entityUrn", Str("c1"), "*elements", Lst(<<Str("p1"), Str("p2")>>)),
        Titled("p1", "title", "T1"),
        Titled("p2", "title", "T2"),
        Mk2("entityUrn", Str("ec"), "*elements", Lst(<<Str("e1")>>)),
        Titled("e1", "schoolName", "S1") >>))

\* references written as the identifier of a collection, as the list of
\* the members' identifiers, as an identifier that names nothing, or absent
AgreePayloads ==
    { AgreePayload(pg, ed, ge, g1c) :
        pg \in {None, Str("gc"), Str("zz"), Lst(<<Str("g1")>>)},
        ed \in {None, Str("ec"), Lst(<<Str("e1")>>)},
        ge \in {None, Lst(<<>>), Lst(<<Str("g1")>>)},
        g1c \in {Str("c1"), Lst(<<Str("p1"), Str("p2")>>)} }

InitAgree ==
    /\ json_response \in AgreePayloads
    /\ public_identifier = None
    /\ pc = "start"
    /\ urn_map = EmptyMap
    /\ profile_entity = None
    /\ result = None
    /\ arg_entity = None
    /\ arg_field = ""
    /\ url = ""
    /\ calls = <<>>
    /\ OutsideRepeatIdle

\* the parser a finished call belongs to
ParserOf(position) ==
    IF position \in {"returned", "raised"} THEN "main" ELSE "scrapers"

\* the finished call: its payload, the root it selected and its outcome
Finished ==
    [payload |-> json_response, target |-> public_identifier, outcome |-> result,
     parser |-> ParserOf(pc), root |-> profile_entity]

\* the caller notes the outcome and hands the same payload to a parser
\* once more; the new call begins with its own locals
CallOther ==
    /\ pc \in {"returned", "raised", "p_returned", "p_raised"}
    /\ calls = <<>>
    /\ calls' = <<Finished>>
    /\ pc' = "start"
    /\ urn_map' = EmptyMap
    /\ profile_entity' = None
    /\ result' = None
    /\ UNCHANGED <<json_response, public_identifier, arg_entity, arg_field, url,
                   outsideRepeat>>

NextAgree == NextParse \/ NextProfile \/ CallOther

SpecAgree == InitAgree /\ [][NextAgree]_vars

\* the finished calls on the payload
Runs ==
    IF pc \in {"returned", "raised", "p_returned", "p_raised"}
    THEN Append(calls, Finished)
    ELSE calls

\* C27: when parse_linkedin_voyager_response returned a profile and
\* parse_profile_response selected the same root on the same payload,
\* parse_profile_response returned too, with the same positions and the
\* same educations
C27_ParsersAgree ==
    \A i, j \in 1..Len(Runs) :
        ( /\ Runs[i].parser = "main"
          /\ Runs[j].parser = "scrapers"
          /\ Runs[i].root # None
          /\ Runs[i].root = Runs[j].root
          /\ IsDict(Runs[i].outcome) )
        => /\ IsDict(Runs[j].outcome)
           /\ Runs[j].outcome.v["positions"] = Runs[i].outcome.v["positions"]
           /\ Runs[j].outcome.v["educations"] = Runs[i].outcome.v["educations"]

----------------------------------------------------------------------------
(* The target and the returned profile *)

\* C28: a call with a target that returns a profile returns the profile
\* whose public_identifier is the target
C28_ReturnsTheTarget ==
    (pc = "returned" /\ public_identifier # None /\ IsDict(result)) =>
        result.v["public_identifier"] = public_identifier

----------------------------------------------------------------------------
(* crawler/service.py: crawl and close calls on one CrawlerService *)

MaxTasks == 3       \* most calls made on the service

Tasks == 1..MaxTasks

\* "result = await crawler.arun(...)" is reached with the crawler that
\* _get_crawler returned; with None the attribute access raises and the
\* except clause of crawl returns a failed response
IssueArun(i, crawler, ready) ==
    IF crawler = None
    THEN /\ t_pc' = [t_pc EXCEPT ![i] = "c_done"]
         /\ UNCHANGED aruns
    ELSE /\ t_pc' = [t_pc EXCEPT ![i] = "c_running"]
         /\ aruns' = aruns \cup {[crawler |-> crawler.v, ready |-> crawler.v \in ready]}

\* crawl is called and runs to its first await: with no crawler, one is
\* created, assigned to self._crawler, and its start() is awaited; with a
\* crawler, _get_crawler returns it at once and arun is awaited
CrawlBegin(i) ==
    /\ t_pc[i] = "t_idle"
    /\ IF _crawler = None
       THEN /\ instances' = instances + 1
            /\ since_close' = since_close + 1
            /\ _crawler' = Num(instances + 1)
            /\ t_made' = [t_made EXCEPT ![i] = instances + 1]
            /\ t_pc' = [t_pc EXCEPT ![i] = "c_starting"]
            /\ UNCHANGED <<started, aruns>>
       ELSE /\ IssueArun(i, _crawler, started)
            /\ UNCHANGED <<_crawler, instances, since_close, started, t_made>>
    /\ UNCHANGED outsideCrawl

\* start() completes: _get_crawler returns self._crawler as it is now, and
\* arun is awaited
CrawlStarted(i) ==
    /\ t_pc[i] = "c_starting"
    /\ started' = started \cup {t_made[i]}
    /\ IssueArun(i, _crawler, started')
    /\ UNCHANGED <<_crawler, instances, since_close, t_made, outsideCrawl>>

\* arun completes and crawl returns its response
CrawlFinished(i) ==
    /\ t_pc[i] = "c_running"
    /\ t_pc' = [t_pc EXCEPT ![i] = "c_done"]
    /\ UNCHANGED <<_crawler, instances, since_close, started, aruns, t_made, outsideCrawl>>

\* close is called, while no other close call is running: with a crawler,
\* its close() is awaited
CloseBegin(i) ==
    /\ t_pc[i] = "t_idle"
    /\ \A j \in Tasks : t_pc[j] # "x_closing"
    /\ since_close' = 0
    /\ t_pc' = [t_pc EXCEPT ![i] = IF _crawler = None THEN "x_done" ELSE "x_closing"]
    /\ UNCHANGED <<_crawler, instances, started, aruns, t_made, outsideCrawl>>

\* the crawler's close() completes and self._crawler is set to None
CloseEnd(i) ==
    /\ t_pc[i] = "x_closing"
    /\ _crawler' = None
    /\ t_pc' = [t_pc EXCEPT ![i] = "x_done"]
    /\ UNCHANGED <<instances, since_close, started, aruns, t_made, outsideCrawl>>

NextCrawl ==
    \E i \in Tasks :
        \/ CrawlBegin(i)
        \/ CrawlStarted(i)
        \/ CrawlFinished(i)
        \/ CloseBegin(i)
        \/ CloseEnd(i)

\* a new CrawlerService, and calls that have not begun
InitCrawl ==
    /\ _crawler = None
    /\ instances = 0
    /\ since_close = 0
    /\ started = {}
    /\ aruns = {}
    /\ t_pc = [i \in Tasks |-> "t_idle"]
    /\ t_made = [i \in Tasks |-> 0]
    /\ OutsideCrawlIdle

SpecCrawl == InitCrawl /\ [][NextCrawl]_vars

\* C29: every page fetch was issued on an instance whose start() had
\* completed, and at most one instance was created since the last close()
\* call
C29_FetchOnStartedCrawler ==
    /\ \A a \in aruns : a.ready
    /\ since_close <= 1

====
